---- MODULE Spec2Model ----
(***************************************************************************)
(* A model of the `field` crate (src/field/src/lib.rs): the triangulated   *)
(* periodic Field<f64>, its point location, toroidal vertex lookup,        *)
(* barycentric value and gradient, and the Raycaster's march loop.         *)
(*                                                                         *)
(* f64 values are modelled as exact rationals [n |-> n, d |-> d] in lowest *)
(* terms with d > 0, plus the three IEEE-754 specials, written with d = 0: *)
(* n = 1 is +inf, n = -1 is -inf and n = 0 is NaN.  Every f64 operation of *)
(* the source is the corresponding operation below; rounding is not        *)
(* modelled (results are exact), the specials follow IEEE-754.             *)
(***************************************************************************)
EXTENDS Integers, Sequences, FiniteSets, Bags, TLC

----------------------------------------------------------------------------
(* f64 arithmetic *)

IAbs(i) == IF i < 0 THEN -i ELSE i

ISgn(i) == IF i < 0 THEN -1 ELSE IF i > 0 THEN 1 ELSE 0

RECURSIVE IGcd(_, _)
IGcd(a, b) == IF b = 0 THEN a ELSE IGcd(b, a % b)

\* the f64 n/d, in lowest terms; a zero denominator gives the IEEE special
F(n, d) ==
    IF d = 0 THEN [n |-> ISgn(n), d |-> 0]
    ELSE LET g == IGcd(IAbs(n), IAbs(d))
             s == ISgn(d)
         IN  [n |-> (s * n) \div g, d |-> (s * d) \div g]

FInt(i) == [n |-> i, d |-> 1]

FZero == FInt(0)

FOne == FInt(1)

FNaN == [n |-> 0, d |-> 0]

FInf == [n |-> 1, d |-> 0]

FIsNaN(a) == a.d = 0 /\ a.n = 0

FNeg(a) == [n |-> -a.n, d |-> a.d]

FAbs(a) == [n |-> IAbs(a.n), d |-> a.d]

\* the sum is taken over the least common denominator
FAdd(a, b) ==
    IF a.d > 0 /\ b.d > 0
    THEN LET g == IGcd(a.d, b.d)
         IN  F(a.n * (b.d \div g) + b.n * (a.d \div g), (a.d \div g) * b.d)
    ELSE IF a.d > 0 THEN b
    ELSE IF b.d > 0 THEN a
    ELSE IF a.n = b.n THEN a ELSE FNaN

FSub(a, b) == FAdd(a, FNeg(b))

FMul(a, b) ==
    IF a.d > 0 /\ b.d > 0 THEN F(a.n * b.n, a.d * b.d)
    ELSE [n |-> ISgn(a.n) * ISgn(b.n), d |-> 0]

\* 1/a; 1/0 is +inf (zeros are unsigned here), 1/inf is 0
FInv(a) ==
    IF a.d = 0 THEN (IF a.n = 0 THEN FNaN ELSE FZero)
    ELSE IF a.n = 0 THEN FInf
    ELSE F(a.d, a.n)

FDiv(a, b) == FMul(a, FInv(b))

\* a < b; any comparison with NaN is false.  Finite values are compared by
\* integer part first, so that no product exceeds the two denominators'.
FLt(a, b) ==
    IF FIsNaN(a) \/ FIsNaN(b) THEN FALSE
    ELSE IF a.d = 0 \/ b.d = 0
         THEN (IF a.d = 0 THEN a.n ELSE 0) < (IF b.d = 0 THEN b.n ELSE 0)
    ELSE LET fa == a.n \div a.d
             fb == b.n \div b.d
         IN  IF fa # fb THEN fa < fb
             ELSE (a.n - fa * a.d) * b.d < (b.n - fb * b.d) * a.d

FLe(a, b) == ~FIsNaN(a) /\ ~FIsNaN(b) /\ ~FLt(b, a)

\* f64::min and f64::max: a NaN operand is ignored
FMin(a, b) ==
    IF FIsNaN(a) THEN b ELSE IF FIsNaN(b) THEN a
    ELSE IF FLt(b, a) THEN b ELSE a

FMax(a, b) ==
    IF FIsNaN(a) THEN b ELSE IF FIsNaN(b) THEN a
    ELSE IF FLt(a, b) THEN b ELSE a

\* x.div_euclid(1.) as isize: the floor of a finite x, and 0 for NaN (the
\* `as` cast sends NaN to 0).  An infinite x would saturate to isize::MIN or
\* isize::MAX; the rays of the model never produce one (see Dirs).
FDivEuclid1(a) == IF a.d > 0 THEN a.n \div a.d ELSE 0

\* (mutant) x % 1.: the remainder keeps the sign of x
FRemTrunc1(a) ==
    IF a.d > 0 THEN F(ISgn(a.n) * (IAbs(a.n) % a.d), a.d) ELSE FNaN

\* x.rem_euclid(1.): the fractional part in [0,1); NaN for a non-finite x
FRemEuclid1(a) == IF a.d > 0 THEN F(a.n % a.d, a.d) ELSE FNaN

----------------------------------------------------------------------------
(* nalgebra vectors and 2x2 matrices: <<x, y>>, <<x, y, z>>, and            *)
(* <<<<m11, m12>>, <<m21, m22>>>>                                           *)

FVec2(x, y) == <<FInt(x), FInt(y)>>

VAdd2(a, b) == <<FAdd(a[1], b[1]), FAdd(a[2], b[2])>>

VAdd3(a, b) == <<FAdd(a[1], b[1]), FAdd(a[2], b[2]), FAdd(a[3], b[3])>>

VSub3(a, b) == <<FSub(a[1], b[1]), FSub(a[2], b[2]), FSub(a[3], b[3])>>

VScale3(a, k) == <<FMul(a[1], k), FMul(a[2], k), FMul(a[3], k)>>

MatVec2(m, v) ==
    << FAdd(FMul(m[1][1], v[1]), FMul(m[1][2], v[2])),
       FAdd(FMul(m[2][1], v[1]), FMul(m[2][2], v[2])) >>

----------------------------------------------------------------------------
(* Field<T> *)

\* x as usize: the integer part of a positive x, and 0 for a NaN or a
\* negative x.  +inf would saturate to usize::MAX; the constructor arguments
\* of the model never produce it (see RawConfigs).
AsUsize(a) == IF a.d > 0 /\ a.n > 0 THEN a.n \div a.d ELSE 0

\* cols = (tile_x / res) as usize
NewCols(tile_x, res) == AsUsize(FDiv(tile_x, res))

\* (mutant) rows with the doubling done before the cast:
\* (tile_y * (2/sqrt 3) / res) as usize
NewRowsDoubledFirst(tile_y, res) ==
    LET q == FMul(FInt(2), FDiv(tile_y, res))
    IN  CHOOSE n \in 0..AsUsize(q) :
            /\ n = 0 \/ FLe(FInt(3 * n * n), FMul(q, q))
            /\ n = AsUsize(q) \/ FLt(FMul(q, q), FInt(3 * (n + 1) * (n + 1)))

\* rows = (tile_y * (1/sqrt 3) / res) as usize * 2: with q = tile_y / res,
\* the largest n with n * sqrt 3 <= q, that is 3 n^2 <= q^2, doubled
NewRows(tile_y, res) ==
    LET q == FDiv(tile_y, res)
    IN  2 * (CHOOSE n \in 0..AsUsize(q) :
                /\ n = 0 \/ FLe(FInt(3 * n * n), FMul(q, q))
                /\ n = AsUsize(q) \/ FLt(FMul(q, q), FInt(3 * (n + 1) * (n + 1))))

\* Field::new(tile_x, tile_y, res).  d_y is tile_y * (2/sqrt 3) / rows and
\* enters from_square_coords only through d_y * sqrt(3)/2 = tile_y / rows,
\* which is what d_ys holds, and through d_y * 0. (0 for a finite d_y).
New(tile_x, tile_y, res) ==
    LET
        UpperIncidence == << FVec2(-1, 0), FVec2(1, 1), FVec2(0, -1) >>
    IN
    LET
        \* the fixed incidence matrices of Field::new, by columns: the derivative of
        \* each barycentric coordinate with respect to the square coordinates (u, v)
        LowerIncidence == << FVec2(0, 1), FVec2(1, 0), FVec2(-1, -1) >>
    IN
    LET
        \* Matrix2::try_inverse: None (<<>>) when the determinant is zero
        TryInverse2(m) ==
            LET det == FSub(FMul(m[1][1], m[2][2]), FMul(m[2][1], m[1][2]))
            IN  IF det = FZero THEN <<>>
                ELSE << << FDiv(m[2][2], det), FDiv(FNeg(m[1][2]), det) >>,
                        << FDiv(FNeg(m[2][1]), det), FDiv(m[1][1], det) >> >>
    IN
    LET
        MatT2(m) == << <<m[1][1], m[2][1]>>, <<m[1][2], m[2][2]>> >>
    IN
    LET cols == NewCols(tile_x, res)
        rows == NewRows(tile_y, res)
        d_x  == FDiv(tile_x, FInt(cols))
        d_ys == FDiv(tile_y, FInt(rows))
        from_square_coords ==
            << <<d_x, FMul(d_x, F(1, 2))>>, <<FMul(d_ys, FZero), d_ys>> >>
        to_square_coords == TryInverse2(from_square_coords)
        tt == MatT2(to_square_coords)
    IN  [ rows |-> rows,
          cols |-> cols,
          data |-> [c \in (0..(rows - 1)) \X (0..(cols - 1)) |-> "unit"],
          from_square_coords |-> from_square_coords,
          to_square_coords |-> to_square_coords,
          lower_barycentric_coords_gradient |->
              [i \in 1..3 |-> MatVec2(tt, LowerIncidence[i])],
          upper_barycentric_coords_gradient |->
              [i \in 1..3 |-> MatVec2(tt, UpperIncidence[i])] ]

\* (mutant) the sampling position with row and column exchanged
SamplePosSwapped(fld, row, col) ==
    MatVec2(fld.from_square_coords, FVec2(row, col))

\* the position map_with_coords passes for cell (row, col):
\* from_square_coords * point![col, row]
SamplePos(fld, row, col) ==
    MatVec2(fld.from_square_coords, FVec2(col, row))

\* The closures passed to the field are data: a sampling function
\* Point2 -> f64 is a plane a*x + b*y + c or a terrace
\* (floor(a*x) + 2*floor(b*y)) mod 3
ApplyFun(fn, pos) ==
    IF fn.kind = "plane"
    THEN FAdd(FAdd(FMul(FInt(fn.a), pos[1]), FMul(FInt(fn.b), pos[2])), FInt(fn.c))
    ELSE FInt((FDivEuclid1(FMul(FInt(fn.a), pos[1]))
               + 2 * FDivEuclid1(FMul(FInt(fn.b), pos[2]))) % 3)

\* a closure (Point2, T) -> U: new_from_fun's |coord, ()| fun(coord), or one
\* that adds fun(coord) to the old cell
ApplyCoordFun(f, pos, old) ==
    IF f.kind = "sample" THEN ApplyFun(f.fun, pos)
    ELSE FAdd(old, ApplyFun(f.fun, pos))

\* a closure T -> U: new_filled's |()| value.clone(), or a scaling
ApplyMapFun(f, old) ==
    IF f.kind = "fill" THEN f.value
    ELSE FMul(old, f.factor)

\* Field::map_with_coords: cell (row, col) becomes f(position, old cell)
MapWithCoords(fld, f) ==
    [fld EXCEPT !.data =
        [c \in DOMAIN fld.data |->
            ApplyCoordFun(f, SamplePos(fld, c[1], c[2]), fld.data[c])]]

\* (mutant) map with the cells of every row rotated by one column
MapRotated(fld, f) ==
    [fld EXCEPT !.data =
        [c \in DOMAIN fld.data |->
            ApplyMapFun(f, fld.data[<<c[1], (c[2] + 1) % fld.cols>>])]]

\* Field::map
Map(fld, f) ==
    [fld EXCEPT !.data = [c \in DOMAIN fld.data |-> ApplyMapFun(f, fld.data[c])]]

\* (mutant) vertex with the row-band shift taken as cols/2
VertexColsShift(fld, idx) ==
    LET col == idx[1]
        row == idx[2]
        d_col == (col + (row \div fld.rows) * (fld.cols \div 2)) % fld.cols
        d_row == row % fld.rows
    IN  [ pos  |-> MatVec2(fld.from_square_coords, FVec2(row, col)),
          cell |-> <<d_row, d_col>>,
          val  |-> fld.data[<<d_row, d_col>>] ]

\* Field::vertex((col, row)): the world position and the stored cell.  The
\* position is from_square * vector![row, col], as written in the source.
Vertex(fld, idx) ==
    LET col == idx[1]
        row == idx[2]
        d_col == (col + (row \div fld.rows) * (fld.rows \div 2)) % fld.cols
        d_row == row % fld.rows
    IN  [ pos  |-> MatVec2(fld.from_square_coords, FVec2(row, col)),
          cell |-> <<d_row, d_col>>,
          val  |-> fld.data[<<d_row, d_col>>] ]

\* trig_data_from_square_coords
TrigDataFromSquareCoords(pos) ==
    LET col == FDivEuclid1(pos[1])
        u   == FRemEuclid1(pos[1])
        row == FDivEuclid1(pos[2])
        v   == FRemEuclid1(pos[2])
    IN  IF FLt(FAdd(u, v), FOne)
        THEN [ idxs   |-> << <<col, row + 1>>, <<col + 1, row>>, <<col, row>> >>,
               coords |-> << v, u, FSub(FSub(FOne, v), u) >>,
               type   |-> "Lower" ]
        ELSE [ idxs   |-> << <<col, row + 1>>, <<col + 1, row + 1>>, <<col + 1, row>> >>,
               coords |-> << FSub(FOne, u), FSub(FAdd(v, u), FOne), FSub(FOne, v) >>,
               type   |-> "Upper" ]

\* Field::trig_data
TrigData(fld, pos) == TrigDataFromSquareCoords(MatVec2(fld.to_square_coords, pos))

\* (mutant) the Lower matrix for both orientations
TrigCoordGradsLower(fld, trig_type) == fld.lower_barycentric_coords_gradient

\* Field::trig_coord_grads
TrigCoordGrads(fld, trig_type) ==
    IF trig_type = "Upper" THEN fld.upper_barycentric_coords_gradient
    ELSE fld.lower_barycentric_coords_gradient

\* Field::trig_gradient
TrigGradient(fld, idxs, trig_type) ==
    LET g == TrigCoordGrads(fld, trig_type)
        term(i) == LET v == Vertex(fld, idxs[i]).val
                   IN  << FMul(v, g[i][1]), FMul(v, g[i][2]) >>
    IN  VAdd2(VAdd2(term(1), term(2)), term(3))

\* Field::value
Value(fld, pos) ==
    LET td == TrigData(fld, pos)
        term(i) == FMul(Vertex(fld, td.idxs[i]).val, td.coords[i])
    IN  FAdd(FAdd(term(1), term(2)), term(3))

\* Field::new_from_fun
NewFromFun(tile_x, tile_y, res, fun) ==
    MapWithCoords(New(tile_x, tile_y, res), [kind |-> "sample", fun |-> fun])

----------------------------------------------------------------------------
(* Raycaster.  The march parameter (advanced, end, i_min, i_max, t) is      *)
(* measured in units of epsilon = 1e-5, the floor of the step at line 365:  *)
(* a direction `dir` of the model stands for the source direction           *)
(* EpsPerUnit * dir, a position for itself.                                 *)

\* 1 / 1e-5, the number of epsilons in one unit of the march parameter
EpsPerUnit == 100000

\* the cap 1000. of the march bracket
MaxDist == 1000

Epsilon == FInt(1)

MaxDistInEps == FInt(MaxDist * EpsPerUnit)

RECURSIVE ISqrtFrom(_, _)
ISqrtFrom(n, r) == IF (r + 1) * (r + 1) > n THEN r ELSE ISqrtFrom(n, r + 1)

ISqrt(n) == ISqrtFrom(n, 0)

\* the non-negative rationals whose square root is rational
FIsSquare(a) ==
    \/ a = FInf
    \/ /\ a.d > 0 /\ a.n >= 0
       /\ ISqrt(a.n) * ISqrt(a.n) = a.n
       /\ ISqrt(a.d) * ISqrt(a.d) = a.d

\* f64::sqrt, on the values whose root is rational
FSqrt(a) == IF a.d = 0 THEN a ELSE F(ISqrt(a.n), ISqrt(a.d))

NormSquared2(v) == FAdd(FMul(v[1], v[1]), FMul(v[2], v[2]))

\* the determinant of the matrix with columns a, b, c
Det3(a, b, c) ==
    FAdd(FAdd(FMul(a[1], FSub(FMul(b[2], c[3]), FMul(b[3], c[2]))),
              FMul(a[2], FSub(FMul(b[3], c[1]), FMul(b[1], c[3])))),
         FMul(a[3], FSub(FMul(b[1], c[2]), FMul(b[2], c[1]))))

\* Matrix3::from_columns(&[a, b, c]).lu().solve(&rhs): None (<<>>) for a
\* singular matrix, else the solution (t, u, v)
LuSolve3(a, b, c, rhs) ==
    LET det == Det3(a, b, c)
    IN  IF det = FZero THEN <<>>
        ELSE << FDiv(Det3(rhs, b, c), det),
                FDiv(Det3(a, rhs, c), det),
                FDiv(Det3(a, b, rhs), det) >>

\* (mutant) iter_trigs without the triangles of the last row, whose upper
\* vertices are resolved through the wrap
IterTrigsInnerRows(fld) ==
    UNION { { [ idxs |-> << <<col, row + 1>>, <<col + 1, row>>, <<col, row>> >>,
                type |-> "Lower" ],
              [ idxs |-> << <<col, row + 1>>, <<col + 1, row + 1>>, <<col + 1, row>> >>,
                type |-> "Upper" ] } :
            row \in 0..(fld.rows - 2), col \in 0..(fld.cols - 1) }

\* Field::iter_trigs
IterTrigs(fld) ==
    UNION { { [ idxs |-> << <<col, row + 1>>, <<col + 1, row>>, <<col, row>> >>,
                type |-> "Lower" ],
              [ idxs |-> << <<col, row + 1>>, <<col + 1, row + 1>>, <<col + 1, row>> >>,
                type |-> "Upper" ] } :
            row \in 0..(fld.rows - 1), col \in 0..(fld.cols - 1) }

\* max_by / min_by with f64::total_cmp, over finite values
FMaxOf(S) == CHOOSE x \in S : \A y \in S : FLe(y, x)

FMinOf(S) == CHOOSE x \in S : \A y \in S : FLe(x, y)

\* Field::max_gradient, before its final sqrt(): the largest norm_squared
MaxGradientSq(fld) ==
    FMaxOf({ NormSquared2(TrigGradient(fld, t.idxs, t.type)) : t \in IterTrigs(fld) })

\* Field::raycaster.  max_gradient is kept squared (max_gradient_sq); its
\* sqrt() is taken where cone_opening multiplies it by the norm of dir.xy.
Raycaster(fld) ==
    [ max_heigth |-> FMaxOf({ fld.data[c] : c \in DOMAIN fld.data }),
      min_heigth |-> FMinOf({ fld.data[c] : c \in DOMAIN fld.data }),
      max_gradient_sq |-> MaxGradientSq(fld) ]

\* (mutant) the crossing parameter with its sign reversed
PlaneCrossingReversed(height, pos, dir) == FDiv(FSub(pos[3], height), dir[3])

\* i_min and i_max, lines 306-307
PlaneCrossing(height, pos, dir) == FDiv(FSub(height, pos[3]), dir[3])

\* (mutant) the early return with strict comparisons
RejectedStrict(i_min, i_max) == FLt(i_min, FZero) /\ FLt(i_max, FZero)

\* the early return of line 309
Rejected(i_min, i_max) == FLe(i_min, FZero) /\ FLe(i_max, FZero)

\* the initial value of `advanced`, line 315
MarchStart(i_min, i_max) == FMin(FZero, FMin(i_min, i_max))

\* `end`, line 316
MarchEnd(i_min, i_max) == FMin(FMax(i_min, i_max), MaxDistInEps)

\* cone_opening, line 319: max_gradient * dir.xy().norm() is the square root
\* of max_gradient_sq * dir.xy().norm_squared()
ConeOpening(r, dir) ==
    FInv(FAdd(FAbs(dir[3]), FSqrt(FMul(r.max_gradient_sq, NormSquared2(dir)))))

\* the three 3-D vertices of lines 326-330
TrigVertices(fld, idxs) ==
    [i \in 1..3 |->
        LET vx == Vertex(fld, idxs[i])
        IN  <<vx.pos[1], vx.pos[2], vx.val>>]

\* the exact test of lines 339-358: the solution (t, u, v) when the ray
\* meets the triangle, else <<>>
HitTest(vertices, pos, dir) ==
    LET sol == LuSolve3(<<FNeg(dir[1]), FNeg(dir[2]), FNeg(dir[3])>>,
                        VSub3(vertices[2], vertices[1]),
                        VSub3(vertices[3], vertices[1]),
                        VSub3(pos, vertices[1]))
    IN  IF sol = <<>> THEN <<>>
        ELSE IF /\ FLe(FZero, sol[1]) /\ FLe(FZero, sol[2]) /\ FLe(FZero, sol[3])
                /\ FLe(FAdd(sol[2], sol[3]), FOne)
             THEN sol
             ELSE <<>>

\* one iteration of the loop of lines 321-402 at march parameter adv:
\* the hit, or the step to add to `advanced`
MarchIteration(fld, r, pos, dir, adv) ==
    LET current_pos == VAdd3(pos, VScale3(dir, adv))
        td == TrigData(fld, <<current_pos[1], current_pos[2]>>)
        vertices == TrigVertices(fld, td.idxs)
        hit == HitTest(vertices, pos, dir)
        t_height == FAdd(FAdd(FMul(vertices[1][3], td.coords[1]),
                              FMul(vertices[2][3], td.coords[2])),
                         FMul(vertices[3][3], td.coords[3]))
        delta == FMul(ConeOpening(r, dir), FAbs(FSub(t_height, current_pos[3])))
    IN  IF hit # <<>>
        THEN [hit |-> TRUE, point |-> VAdd3(pos, VScale3(dir, hit[1]))]
        ELSE [hit |-> FALSE, step |-> FMax(delta, Epsilon)]

----------------------------------------------------------------------------
(* The inputs of the model *)

\* largest tile_x, tile_y and res passed to the constructors
MaxTileX == 3

MaxTileY == 4

MaxRes == 2

\* query points reach from square coordinate -1 to MaxSq, in steps of 1/SubDiv
MaxSq == 4

SubDiv == 3

\* lattice indices passed to vertex reach from -MaxIdx to MaxIdx
MaxIdx == 6

\* the (tile_x, tile_y, res) for which Field::new builds a non-empty grid
Configs ==
    { c \in (1..MaxTileX) \X (2..MaxTileY) \X (1..MaxRes) :
        NewCols(FInt(c[1]), FInt(c[3])) >= 1 /\ NewRows(FInt(c[2]), FInt(c[3])) >= 2 }

\* the caller's sampling functions Point2 -> f64: the planes a*x + b*y + c
\* and a family of terraces (floor(a*x) + 2*floor(b*y)) mod 3
Funs ==
    [kind : {"plane"}, a : 0..1, b : 0..1, c : 0..1]
    \cup [kind : {"steps"}, a : 0..1, b : {1}, c : {0}]

\* query positions: the points of the lattice refined SubDiv times, around
\* and beyond the tile, and the half-integer world points
QueryPoints(fld) ==
    { MatVec2(fld.from_square_coords, <<F(i, SubDiv), F(j, SubDiv)>>) :
        i \in (-SubDiv)..(MaxSq * SubDiv), j \in (-SubDiv)..(MaxSq * SubDiv) }
    \cup { <<F(i, 2), F(j, 2)>> : i \in (-2)..(2 * MaxTileX), j \in (-2)..(2 * MaxTileY) }

\* the march loop is followed for at most MaxIters iterations
MaxIters == 6

\* ray origins lie over these square coordinates: a lattice vertex, points
\* of the Lower and the Upper triangle of the cell (0,0), on and off its
\* diagonal, and points of the cells (1,0) and (0,1)
OriginSq ==
    { <<F(s[1], 4), F(s[2], 4)>> :
        s \in { <<0, 0>>, <<1, 1>>, <<2, 1>>, <<3, 3>>, <<3, 2>>, <<5, 1>>, <<1, 5>> } }

\* ray directions, as displacement per epsilon of march parameter: the unit
\* vectors (0,0,-1) and (0,0,1), and vectors EpsPerUnit times longer.  A
\* horizontal ray (dir.z = 0) has dir.x * dir.y >= 0: marched from -inf, its
\* position then has NaN square coordinates, never infinite ones.
Dirs ==
    { <<FZero, FZero, F(-1, EpsPerUnit)>>, <<FZero, FZero, F(1, EpsPerUnit)>>,
      <<F(1, 4), FZero, FInt(-1)>> }
    \cup { <<FInt(d[1]), FInt(d[2]), FInt(d[3])>> :
             d \in { <<0, 0, -1>>, <<0, 0, 1>>, <<1, 0, -1>>, <<0, 1, -1>>, <<1, 1, 1>>,
                     <<-1, 0, -2>>, <<1, 0, 0>>, <<0, 1, 0>>, <<1, 1, 0>> } }

\* the rays cast on a field: origins over the refined lattice at heights
\* around the raycaster's slab, and the directions for which the cone bound
\* is rational (max_gradient * |dir.xy| has an exact square root)
Rays(fld, r) ==
    { [ pos |-> <<xy[1], xy[2], z>>, dir |-> d ] :
        xy \in { MatVec2(fld.from_square_coords, s) : s \in OriginSq },
        z \in { FSub(r.min_heigth, FInt(2)), r.min_heigth,
                FMul(FAdd(r.min_heigth, r.max_heigth), F(1, 2)),
                r.max_heigth, FAdd(r.max_heigth, FInt(3)), FAdd(r.max_heigth, FInt(10)) },
        d \in { e \in Dirs :
                  FIsSquare(FMul(r.max_gradient_sq, NormSquared2(e))) } }

----------------------------------------------------------------------------
(* State *)

VARIABLES
    cfg,        \* the arguments the field was constructed with
    field,      \* the Field<f64>
    op,         \* the operation last called ("cast_march": cast is in its loop), or "idle"
    arg,        \* its argument
    out,        \* its result; cast's Option is [some |-> FALSE] or [some |-> TRUE, point |-> p]
    rc,         \* the Raycasters borrowed from the field: none, or one
    advanced,   \* cast's local `advanced`
    end,        \* cast's local `end`
    iters,      \* iterations of the march loop entered by the cast in progress
    time,       \* Simulation::time
    state,      \* Simulation::state
    events      \* Simulation::events

simVars == <<time, state, events>>

vars == <<cfg, field, op, arg, out, rc, advanced, end, iters, time, state, events>>

\* no Simulation has been made
NoSimulation ==
    /\ time = 0
    /\ state = <<>>
    /\ events = EmptyBag

\* Field::new_from_fun(tile_x, tile_y, res, fun)
Init ==
    \E c \in Configs, fn \in Funs :
        /\ cfg = [tile_x |-> c[1], tile_y |-> c[2], res |-> c[3], fun |-> fn]
        /\ field = NewFromFun(FInt(c[1]), FInt(c[2]), FInt(c[3]), fn)
        /\ op = "idle"
        /\ arg = "none"
        /\ out = "none"
        /\ rc = {}
        /\ advanced = "none"
        /\ end = "none"
        /\ iters = 0
        /\ NoSimulation

CallValue ==
    /\ op = "idle"
    /\ \E p \in QueryPoints(field) :
        /\ op' = "value"
        /\ arg' = p
        /\ out' = Value(field, p)
        /\ UNCHANGED <<simVars, cfg, field, rc, advanced, end, iters>>

CallGradient ==
    LET
        \* Field::gradient
        Gradient(fld, pos) ==
            LET td == TrigData(fld, pos)
            IN  TrigGradient(fld, td.idxs, td.type)
    IN
    /\ op = "idle"
    /\ \E p \in QueryPoints(field) :
        /\ op' = "gradient"
        /\ arg' = p
        /\ out' = Gradient(field, p)
        /\ UNCHANGED <<simVars, cfg, field, rc, advanced, end, iters>>

CallTrigData ==
    /\ op = "idle"
    /\ \E p \in QueryPoints(field) :
        /\ op' = "trig_data"
        /\ arg' = p
        /\ out' = TrigData(field, p)
        /\ UNCHANGED <<simVars, cfg, field, rc, advanced, end, iters>>

CallVertex ==
    LET
        Indices == ((-MaxIdx)..MaxIdx) \X ((-MaxIdx)..MaxIdx)
    IN
    /\ op = "idle"
    /\ \E idx \in Indices :
        /\ op' = "vertex"
        /\ arg' = idx
        /\ out' = Vertex(field, idx)
        /\ UNCHANGED <<simVars, cfg, field, rc, advanced, end, iters>>

\* the caller takes the result; the field is ready for the next call
Return ==
    /\ op \notin {"idle", "cast_march"}
    /\ op' = "idle"
    /\ arg' = "none"
    /\ out' = "none"
    /\ advanced' = "none"
    /\ end' = "none"
    /\ iters' = 0
    /\ UNCHANGED <<simVars, cfg, field, rc>>

Next == CallValue \/ CallGradient \/ CallTrigData \/ CallVertex \/ Return

Spec == Init /\ [][Next]_vars

----------------------------------------------------------------------------
(* Raycasting *)

\* the raycaster in use
TheRaycaster == CHOOSE r \in rc : TRUE

InitCast ==
    LET
        \* the fields rays are cast on
        CastConfigs == { c \in Configs : c[3] = 1 /\ c[1] >= 2 /\ c[2] = 2 }
    IN
            Init /\ <<cfg.tile_x, cfg.tile_y, cfg.res>> \in CastConfigs

\* Field::raycaster
MakeRaycaster ==
    /\ op = "idle"
    /\ rc = {}
    /\ rc' = {Raycaster(field)}
    /\ UNCHANGED <<simVars, cfg, field, op, arg, out, advanced, end, iters>>

\* Raycaster::cast, lines 305-319: the bracket, and the early return
CastBegin ==
    /\ op = "idle"
    /\ rc # {}
    /\ \E ray \in Rays(field, TheRaycaster) :
        LET i_min == PlaneCrossing(TheRaycaster.min_heigth, ray.pos, ray.dir)
            i_max == PlaneCrossing(TheRaycaster.max_heigth, ray.pos, ray.dir)
        IN  /\ arg' = ray
            /\ IF Rejected(i_min, i_max)
               THEN /\ op' = "cast"
                    /\ out' = [some |-> FALSE]
                    /\ UNCHANGED <<advanced, end>>
               ELSE /\ op' = "cast_march"
                    /\ out' = "none"
                    /\ advanced' = MarchStart(i_min, i_max)
                    /\ end' = MarchEnd(i_min, i_max)
            /\ UNCHANGED <<simVars, cfg, field, rc, iters>>

\* one iteration of `while advanced < end`
CastStep ==
    /\ op = "cast_march"
    /\ FLt(advanced, end)
    /\ iters < MaxIters
    /\ LET it == MarchIteration(field, TheRaycaster, arg.pos, arg.dir, advanced)
       IN  /\ iters' = iters + 1
           /\ IF it.hit
              THEN /\ op' = "cast"
                   /\ out' = [some |-> TRUE, point |-> it.point]
                   /\ UNCHANGED advanced
              ELSE /\ advanced' = FAdd(advanced, it.step)
                   /\ UNCHANGED <<op, out>>
    /\ UNCHANGED <<simVars, cfg, field, arg, rc, end>>

\* (mutant) a cast that, when its march ends without a hit, lowers the
\* raycaster's stored maximum to the minimum
CastExhaustedCaching ==
    /\ op = "cast_march"
    /\ ~FLt(advanced, end)
    /\ op' = "cast"
    /\ out' = [some |-> FALSE]
    /\ rc' = {[TheRaycaster EXCEPT !.max_heigth = TheRaycaster.min_heigth]}
    /\ UNCHANGED <<simVars, cfg, field, arg, advanced, end, iters>>

\* the loop ends without a hit: cast returns None
CastExhausted ==
    /\ op = "cast_march"
    /\ ~FLt(advanced, end)
    /\ op' = "cast"
    /\ out' = [some |-> FALSE]
    /\ UNCHANGED <<simVars, cfg, field, arg, rc, advanced, end, iters>>

NextCast == MakeRaycaster \/ CastBegin \/ CastStep \/ CastExhausted \/ Return

SpecCast == InitCast /\ [][NextCast]_vars

\* Raycaster::cast as a function of the raycaster and the ray
Cast(r, fld, pos, dir) ==
    LET
        \* the loop of Raycaster::cast from march parameter adv, as a function of its
        \* arguments: the result, or no result within n iterations
        RECURSIVE CastFrom(_, _, _, _, _, _, _)
        CastFrom(fld_, r_, pos_, dir_, adv, e, n) ==
            IF ~FLt(adv, e) THEN [some |-> FALSE]
            ELSE IF n = 0 THEN [some |-> FALSE, unfinished |-> TRUE]
            ELSE LET it == MarchIteration(fld_, r_, pos_, dir_, adv)
                 IN  IF it.hit THEN [some |-> TRUE, point |-> it.point]
                     ELSE CastFrom(fld_, r_, pos_, dir_, FAdd(adv, it.step), e, n - 1)
    IN
    LET i_min == PlaneCrossing(r.min_heigth, pos, dir)
        i_max == PlaneCrossing(r.max_heigth, pos, dir)
    IN  IF Rejected(i_min, i_max) THEN [some |-> FALSE]
        ELSE CastFrom(fld, r, pos, dir, MarchStart(i_min, i_max),
                      MarchEnd(i_min, i_max), MaxIters)

----------------------------------------------------------------------------
(* Claims about the field *)

InGrid(fld, idx) ==
    /\ 0 <= idx[1] /\ idx[1] < fld.cols
    /\ 0 <= idx[2] /\ idx[2] < fld.rows

\* C1: value(p) equals value(p + (tile_x, 0)) and value(p + (0, tile_y)), and
\* the three stored samples and their weights are the same at the three points
C1_Periodic ==
    LET
        \* the stored cells and the weights value() combines at pos
        Samples(fld, pos) ==
            LET td == TrigData(fld, pos)
            IN  [i \in 1..3 |-> <<Vertex(fld, td.idxs[i]).cell, td.coords[i]>>]
    IN
    LET
        TileShiftY == <<FZero, FInt(cfg.tile_y)>>
    IN
    LET
        TileShiftX == <<FInt(cfg.tile_x), FZero>>
    IN
    op = "value" =>
        /\ out = Value(field, VAdd2(arg, TileShiftX))
        /\ out = Value(field, VAdd2(arg, TileShiftY))
        /\ Samples(field, arg) = Samples(field, VAdd2(arg, TileShiftX))
        /\ Samples(field, arg) = Samples(field, VAdd2(arg, TileShiftY))

\* a value query on a terraced field whose triangle reaches over the last row
C1_Witness ==
    /\ op = "value"
    /\ cfg.fun.kind = "steps"
    /\ out # FZero
    /\ field.cols >= 2
    /\ TrigData(field, arg).idxs[1][2] >= field.rows
    /\ TrigData(field, arg).coords[1] # FZero

\* C4: at the world position of a lattice vertex (col, row) of the grid,
\* value returns the stored sample data[(row, col)], which is the sampling
\* function at that position
C4_VertexExact ==
    op = "value" =>
        \A c \in DOMAIN field.data :
            arg = MatVec2(field.from_square_coords, FVec2(c[2], c[1])) =>
                /\ out = field.data[c]
                /\ out = ApplyFun(cfg.fun, arg)

\* a value query at the vertex col = 1, row = 1 of a sloped plane
C4_Witness ==
    /\ op = "value"
    /\ field.cols >= 2
    /\ arg = MatVec2(field.from_square_coords, FVec2(1, 1))
    /\ cfg.fun = [kind |-> "plane", a |-> 1, b |-> 1, c |-> 0]
    /\ out # FZero

\* C5: the barycentric coordinates returned by trig_data sum to 1 and each
\* lies in [0, 1]
C5_PartitionOfUnity ==
    op = "trig_data" =>
        /\ FAdd(FAdd(out.coords[1], out.coords[2]), out.coords[3]) = FOne
        /\ \A i \in 1..3 : FLe(FZero, out.coords[i]) /\ FLe(out.coords[i], FOne)

\* an interior point of an Upper triangle at negative square coordinates
C5_WitnessUpper ==
    /\ op = "trig_data"
    /\ out.type = "Upper"
    /\ out.idxs[3][1] <= 0 /\ out.idxs[3][2] < 0
    /\ \A i \in 1..3 : FLt(FZero, out.coords[i])

\* C6 as claimed: (col, row + rows) and (col + cols, row) resolve to the
\* stored cell of (col, row)
C6_WrapSameCell ==
    op = "vertex" =>
        /\ Vertex(field, <<arg[1] + field.cols, arg[2]>>).cell = out.cell
        /\ Vertex(field, <<arg[1], arg[2] + field.rows>>).cell = out.cell

\* C6 amended: (col + cols, row) resolves to the stored cell of (col, row),
\* and (col, row + rows) to the stored cell of (col + rows/2, row)
C6_WrapShifted ==
    op = "vertex" =>
        /\ Vertex(field, <<arg[1] + field.cols, arg[2]>>).cell = out.cell
        /\ Vertex(field, <<arg[1], arg[2] + field.rows>>).cell
             = Vertex(field, <<arg[1] + field.rows \div 2, arg[2]>>).cell

\* a lookup below the grid where a row band shifts the column
C6_Witness ==
    /\ op = "vertex"
    /\ arg[2] < 0
    /\ (field.rows \div 2) % field.cols # 0
    /\ out.cell # Vertex(field, <<arg[1], arg[2] + field.rows>>).cell

\* C7 as claimed: on a field sampled from the plane a*x + b*y + c, gradient
\* returns (a, b) at every position
C7_PlaneGradientEverywhere ==
    (op = "gradient" /\ cfg.fun.kind = "plane") =>
        out = FVec2(cfg.fun.a, cfg.fun.b)

\* C7 amended: gradient returns (a, b) at every position whose triangle has
\* its three vertices inside the stored grid (none resolved through the wrap)
C7_PlaneGradientInGrid ==
    (/\ op = "gradient"
     /\ cfg.fun.kind = "plane"
     /\ \A i \in 1..3 : InGrid(field, TrigData(field, arg).idxs[i])) =>
        out = FVec2(cfg.fun.a, cfg.fun.b)

\* the gradient of a sloped plane inside an Upper triangle of the grid
C7_Witness ==
    /\ op = "gradient"
    /\ cfg.fun = [kind |-> "plane", a |-> 1, b |-> 1, c |-> 1]
    /\ TrigData(field, arg).type = "Upper"
    /\ \A i \in 1..3 : InGrid(field, TrigData(field, arg).idxs[i])
    /\ out = FVec2(1, 1)

\* C16: every triangle trig_data returns is, up to the wrap, one of the
\* triangles of iter_trigs (same orientation, same three stored cells), and
\* the norm of gradient(pos) is at most max_gradient() (compared squared)
C16_MaxGradientBound ==
    /\ op = "trig_data" =>
         \E t \in IterTrigs(field) :
            /\ t.type = out.type
            /\ \A i \in 1..3 :
                 Vertex(field, t.idxs[i]).cell = Vertex(field, out.idxs[i]).cell
    /\ op = "gradient" =>
         FLe(NormSquared2(out), MaxGradientSq(field))

\* outside the tile, the gradient of a triangle that reaches through the
\* wrap attains the maximum
C16_Witness ==
    /\ op = "gradient"
    /\ out # <<FZero, FZero>>
    /\ NormSquared2(out) = MaxGradientSq(field)
    /\ FLt(arg[2], FZero)
    /\ \E i \in 1..3 : ~InGrid(field, TrigData(field, arg).idxs[i])

\* C23 as claimed: vertex resolves (col, row) to the stored cell
\* (row mod rows, (col + floor(row / rows) * (cols / 2)) mod cols)
C23_RowWrapColsHalf ==
    op = "vertex" =>
        out.cell = << arg[2] % field.rows,
                      (arg[1] + (arg[2] \div field.rows) * (field.cols \div 2))
                          % field.cols >>

\* C23 amended: vertex resolves (col, row) to the stored cell
\* (row mod rows, (col + floor(row / rows) * (rows / 2)) mod cols), with the
\* Euclidean quotient and remainder, and returns the sample stored there
C23_RowWrapRowsHalf ==
    op = "vertex" =>
        /\ out.cell = << arg[2] % field.rows,
                         (arg[1] + (arg[2] \div field.rows) * (field.rows \div 2))
                             % field.cols >>
        /\ out.cell \in DOMAIN field.data
        /\ out.val = field.data[out.cell]

\* a negative index in a row band below the grid, in a field where rows/2
\* and cols/2 are different shifts
C23_Witness ==
    /\ op = "vertex"
    /\ arg[1] < 0
    /\ arg[2] < -field.rows
    /\ (field.rows \div 2) % field.cols # (field.cols \div 2) % field.cols

\* C26: the position vertex((col, row)) returns is from_square * (col, row),
\* the position at which the constructor sampled the value it returns
C26_VertexAtSamplePos ==
    op = "vertex" =>
        /\ out.pos = MatVec2(field.from_square_coords, FVec2(arg[1], arg[2]))
        /\ InGrid(field, arg) => out.val = ApplyFun(cfg.fun, out.pos)

\* C27: the raycaster's min_heigth and max_heigth are the least and the
\* greatest stored sample, and every value(p) lies between them
C27_SurfaceInsideSlab ==
    op = "value" =>
        LET r == Raycaster(field)
        IN  /\ \A c \in DOMAIN field.data :
                 FLe(r.min_heigth, field.data[c]) /\ FLe(field.data[c], r.max_heigth)
            /\ \E c \in DOMAIN field.data : field.data[c] = r.min_heigth
            /\ \E c \in DOMAIN field.data : field.data[c] = r.max_heigth
            /\ FLe(r.min_heigth, out)
            /\ FLe(out, r.max_heigth)

\* a value strictly inside the slab of a field that is not flat, at a point
\* left of and below the tile
C27_Witness ==
    /\ op = "value"
    /\ FLt(arg[1], FZero) /\ FLt(arg[2], FZero)
    /\ FLt(Raycaster(field).min_heigth, out)
    /\ FLt(out, Raycaster(field).max_heigth)

----------------------------------------------------------------------------
(* Claims about the raycaster *)

\* i_min and i_max of the cast in progress
ArgIMin == PlaneCrossing(TheRaycaster.min_heigth, arg.pos, arg.dir)

ArgIMax == PlaneCrossing(TheRaycaster.max_heigth, arg.pos, arg.dir)

\* the field has constant height min_heigth = max_heigth
FlatField == TheRaycaster.min_heigth = TheRaycaster.max_heigth

NoneResult == [some |-> FALSE]

\* C2: a returned cast gave the first intersection and skipped none.  For a
\* ray that crosses the surface exactly once (see SurfaceT): Some(p) is that
\* crossing, a point of the surface; None is returned only when the crossing
\* is not at a forward parameter strictly inside the march bracket
C2_FirstIntersection ==
    LET
        \* the parameter at which the ray of the cast in progress crosses the
        \* surface, for the rays that cross it exactly once: any ray with dir.z # 0
        \* over a flat field, and a vertical ray over any field
        SurfaceT ==
            FDiv(FSub(IF FlatField THEN TheRaycaster.min_heigth
                      ELSE Value(field, <<arg.pos[1], arg.pos[2]>>),
                      arg.pos[3]),
                 arg.dir[3])
    IN
    LET
        \* p lies on the triangulated surface z = value(x, y)
        OnSurface(p) == Value(field, <<p[1], p[2]>>) = p[3]
    IN
    LET
        VerticalRay == arg.dir[1] = FZero /\ arg.dir[2] = FZero /\ arg.dir[3] # FZero
    IN
    (/\ op = "cast"
     /\ arg.dir[3] # FZero
     /\ FlatField \/ VerticalRay) =>
        IF out.some
        THEN /\ OnSurface(out.point)
             /\ out.point = VAdd3(arg.pos, VScale3(arg.dir, SurfaceT))
        ELSE ~(FLt(FZero, SurfaceT) /\ FLt(SurfaceT, MarchEnd(ArgIMin, ArgIMax)))

\* C3: every iteration of the march loop that does not return makes
\* `advanced` grow by at least epsilon, and the loop has run at most
\* (end - start)/epsilon + 1 iterations
C3_BoundedMarch ==
    /\ [](op = "cast_march" =>
            ~FLt(FAdd(FSub(end, MarchStart(ArgIMin, ArgIMax)), FOne),
                 FInt(iters)))
    /\ [][(op = "cast_march" /\ op' = "cast_march") =>
            FLe(Epsilon, FSub(advanced', advanced))]_vars

\* C8 as claimed: on a flat field of height h, the cast straight down
\* (0,0,-1) from (x, y, h + d), d > 0, returns Some((x, y, h))
C8_FlatPlaneHit ==
    LET
        UnitDown == <<FZero, FZero, F(-1, EpsPerUnit)>>
    IN
    (/\ op = "cast"
     /\ FlatField
     /\ arg.dir = UnitDown
     /\ FLt(TheRaycaster.max_heigth, arg.pos[3])) =>
        out = [some |-> TRUE,
               point |-> <<arg.pos[1], arg.pos[2], TheRaycaster.max_heigth>>]

C10_BracketRejection ==
    (/\ op \in {"cast", "cast_march"}
     /\ FLe(ArgIMin, FZero)
     /\ FLe(ArgIMax, FZero)) =>
        (op = "cast" /\ out = NoneResult /\ iters = 0)

\* a ray that starts on the top of the slab of a field that is not flat and
\* moves up: i_max = 0 and i_min < 0
C10_Witness ==
    /\ op = "cast"
    /\ ~FlatField
    /\ ArgIMax = FZero
    /\ FLt(ArgIMin, FZero)
    /\ out = NoneResult

\* C11: cast returns a hit only when the solve gave t > 0 (strictly), u >= 0,
\* v >= 0 and u + v <= 1, and the hit is origin + t*dir; a ray that starts on
\* a triangle does not get its own origin back
C11_ForwardOnlyHit ==
    LET
        \* the solution (t, u, v) of the exact test in the iteration the cast in
        \* progress is at (`advanced` is the march parameter of that iteration)
        CastSolve ==
            LET current_pos == VAdd3(arg.pos, VScale3(arg.dir, advanced))
            IN  HitTest(TrigVertices(field,
                                     TrigData(field, <<current_pos[1], current_pos[2]>>).idxs),
                        arg.pos, arg.dir)
    IN
    (op = "cast" /\ out.some) =>
        /\ CastSolve # <<>>
        /\ FLt(FZero, CastSolve[1])
        /\ FLe(FZero, CastSolve[2]) /\ FLe(FZero, CastSolve[3])
        /\ FLe(FAdd(CastSolve[2], CastSolve[3]), FOne)
        /\ out.point = VAdd3(arg.pos, VScale3(arg.dir, CastSolve[1]))
        /\ out.point # arg.pos

C24_MarchBracket ==
    op = "cast_march" =>
        /\ iters = 0 => advanced = FMax(Epsilon, FMin(ArgIMin, ArgIMax))
        /\ end = FMin(FMax(ArgIMin, ArgIMax), MaxDistInEps)
        /\ FLt(advanced, end) => FLt(FZero, advanced)

\* C25: in a march iteration that does not hit, for each edge a-b of the
\* triangle under the current position whose vertical plane the ray crosses
\* on the edge (current + t*dir = a + u*(b - a) with 0 <= u <= 1) ahead of the
\* ray (t > 0), the advance of that iteration is at least t
C25_EdgePrismStep ==
    [][(op = "cast_march" /\ op' = "cast_march" /\ iters' = iters + 1) =>
        LET cur == VAdd3(arg.pos, VScale3(arg.dir, advanced))
            idxs == TrigData(field, <<cur[1], cur[2]>>).idxs
            corner(i) == MatVec2(field.from_square_coords,
                                 FVec2(idxs[i][1], idxs[i][2]))
            det(a, b) == FSub(FMul(FSub(b[1], a[1]), arg.dir[2]),
                              FMul(FSub(b[2], a[2]), arg.dir[1]))
            t(a, b) == FDiv(FSub(FMul(FSub(b[1], a[1]), FSub(a[2], cur[2])),
                                 FMul(FSub(b[2], a[2]), FSub(a[1], cur[1]))),
                            det(a, b))
            u(a, b) == FDiv(FSub(FMul(arg.dir[1], FSub(a[2], cur[2])),
                                 FMul(arg.dir[2], FSub(a[1], cur[1]))),
                            det(a, b))
        IN  \A e \in {<<1, 2>>, <<2, 3>>, <<3, 1>>} :
                LET a == corner(e[1])
                    b == corner(e[2])
                IN  (/\ det(a, b) # FZero
                     /\ FLe(FZero, u(a, b)) /\ FLe(u(a, b), FOne)
                     /\ FLt(FZero, t(a, b)))
                    => FLe(t(a, b), FSub(advanced', advanced))]_vars

----------------------------------------------------------------------------
(* Construction and the element-wise maps, for any f64 arguments *)

\* at most MaxMaps maps are applied to a constructed field
MaxMaps == 2

\* the field is a Field<()>: Field::new's result, not yet mapped
IsUnitField == cfg.ctor.ctor = "new" /\ iters = 0

\* the constructor has returned: it returns Self, never an error
InitNew ==
    LET
        Construct(c, k) ==
            LET
                \* Field::new_filled
                NewFilled(tile_x, tile_y, res, value) ==
                    Map(New(tile_x, tile_y, res), [kind |-> "fill", value |-> value])
            IN
            IF k.ctor = "new" THEN New(c[1], c[2], c[3])
            ELSE IF k.ctor = "new_from_fun" THEN NewFromFun(c[1], c[2], c[3], k.fun)
            ELSE NewFilled(c[1], c[2], c[3], k.value)
    IN
    LET
        \* the constructors and their last argument: new (a Field<()>), new_from_fun
        \* and new_filled
        Constructors ==
            [ctor : {"new"}]
            \cup [ctor : {"new_from_fun"},
                  fun : { f \in Funs : f.kind = "plane" /\ f.a = 1 /\ f.c = 0 }]
            \cup [ctor : {"new_filled"}, value : {FOne}]
    IN
    LET
        \* the constructor arguments: all but those whose quotient tile / res is
        \* +inf, for which the grid is larger than any grid of the model
        RawConfigs ==
            LET
                \* the f64 values passed as tile_x, tile_y and res: NaN, +inf, and the
                \* integers from -1 to MaxTileY
                RawValues == {FNaN, FInf} \cup { FInt(i) : i \in (-1)..MaxTileY }
            IN
            { c \in RawValues \X RawValues \X RawValues :
                FDiv(c[1], c[3]) # FInf /\ FDiv(c[2], c[3]) # FInf }
    IN
    \E c \in RawConfigs, k \in Constructors :
        /\ cfg = [tile_x |-> c[1], tile_y |-> c[2], res |-> c[3], ctor |-> k]
        /\ field = Construct(c, k)
        /\ op = "new"
        /\ arg = "none"
        /\ out = "Field"
        /\ rc = {}
        /\ advanced = "none"
        /\ end = "none"
        /\ iters = 0
        /\ NoSimulation

\* Field::map_with_coords consumes the field and returns the mapped one
CallMapWithCoords ==
    LET
        \* the closures passed to map_with_coords and to map; a Field<()> can only
        \* be sampled or filled
        CoordFuns(unit) ==
            { f \in [kind : {"sample", "add"},
                     fun : { g \in Funs : g.kind = "plane" /\ g.a + g.b = 1 /\ g.c = 1 }] :
                f.kind = "sample" \/ ~unit }
    IN
    /\ op = "idle"
    /\ iters < MaxMaps
    /\ \E f \in CoordFuns(IsUnitField) :
        /\ op' = "map_with_coords"
        /\ arg' = [f |-> f, input |-> field]
        /\ field' = MapWithCoords(field, f)
        /\ out' = "Field"
        /\ iters' = iters + 1
        /\ UNCHANGED <<simVars, cfg, rc, advanced, end>>

\* Field::map
CallMap ==
    LET
        MapFuns(unit) ==
            { f \in [kind : {"fill"}, value : {FInt(2)}] \cup [kind : {"scale"}, factor : {FInt(3)}] :
                f.kind = "fill" \/ ~unit }
    IN
    /\ op = "idle"
    /\ iters < MaxMaps
    /\ \E f \in MapFuns(IsUnitField) :
        /\ op' = "map"
        /\ arg' = [f |-> f, input |-> field]
        /\ field' = Map(field, f)
        /\ out' = "Field"
        /\ iters' = iters + 1
        /\ UNCHANGED <<simVars, cfg, rc, advanced, end>>

\* the caller takes the returned field
ReturnField ==
    /\ op \in {"new", "map", "map_with_coords"}
    /\ op' = "idle"
    /\ arg' = "none"
    /\ out' = "none"
    /\ UNCHANGED <<simVars, cfg, field, rc, advanced, end, iters>>

NextNew == CallMapWithCoords \/ CallMap \/ ReturnField

SpecNew == InitNew /\ [][NextNew]_vars

----------------------------------------------------------------------------
(* Claims about construction and the maps *)

\* tile_x, tile_y and res are finite and positive
ValidArgs ==
    LET
        \* finite and positive
        FIsPositive(a) == a.d > 0 /\ a.n > 0
    IN
             FIsPositive(cfg.tile_x) /\ FIsPositive(cfg.tile_y) /\ FIsPositive(cfg.res)

\* C12: a constructor called with a non-finite or non-positive tile_x, tile_y
\* or res reports a construction failure instead of returning a field
C12_ConfigRejected ==
    (op = "new" /\ ~ValidArgs) => out = "ConfigError"

\* C13: for positive finite tile_x, tile_y and res, Field::new yields
\* cols >= 1, rows >= 2, finite non-zero spacings, and an inverse with
\* to_square * from_square = identity
C13_AlwaysInvertible ==
    LET
        Identity2 == << <<FOne, FZero>>, <<FZero, FOne>> >>
    IN
    LET
        \* Matrix2 * Matrix2
        MatMul2(a, b) ==
            [i \in 1..2 |-> [j \in 1..2 |->
                FAdd(FMul(a[i][1], b[1][j]), FMul(a[i][2], b[2][j]))]]
    IN
    LET
        FIsFinite(a) == a.d > 0
    IN
    (op = "new" /\ ValidArgs) =>
        /\ field.cols >= 1
        /\ field.rows >= 2
        /\ FIsFinite(field.from_square_coords[1][1])
        /\ field.from_square_coords[1][1] # FZero
        /\ FIsFinite(field.from_square_coords[2][2])
        /\ field.from_square_coords[2][2] # FZero
        /\ field.to_square_coords # <<>>
        /\ MatMul2(field.to_square_coords, field.from_square_coords) = Identity2

C15_MapElementWise ==
    (op \in {"map", "map_with_coords"}) =>
        /\ field.rows = arg.input.rows
        /\ field.cols = arg.input.cols
        /\ field.from_square_coords = arg.input.from_square_coords
        /\ field.to_square_coords = arg.input.to_square_coords
        /\ field.lower_barycentric_coords_gradient
             = arg.input.lower_barycentric_coords_gradient
        /\ field.upper_barycentric_coords_gradient
             = arg.input.upper_barycentric_coords_gradient
        /\ DOMAIN field.data = DOMAIN arg.input.data
        /\ \A c \in DOMAIN field.data :
             field.data[c] =
                IF op = "map" THEN ApplyMapFun(arg.f, arg.input.data[c])
                ELSE ApplyCoordFun(arg.f,
                                   MatVec2(arg.input.from_square_coords, FVec2(c[2], c[1])),
                                   arg.input.data[c])

\* a field of several distinct cells has been scaled
C15_Witness ==
    /\ op = "map"
    /\ arg.f.kind = "scale"
    /\ field.cols >= 2
    /\ \E c \in DOMAIN field.data : field.data[c] # field.data[<<0, 0>>]

----------------------------------------------------------------------------
(* The event-driven simulation (crate simulation) *)

\* the width, in bits, that the model gives to u64 and i64
TimeBits == 3

U64Max == 2^TimeBits - 1

I64Max == 2^(TimeBits - 1) - 1

I64Min == -(2^(TimeBits - 1))

\* the i64 of two's complement that an integer wraps to
WrapI64(x) == ((x - I64Min) % 2^TimeBits) + I64Min

\* Time::INFINITY
TimeINFINITY == U64Max

\* Time::is_finite
TimeIsFinite(t) == t < U64Max

\* the values of TimeDelta
TimeDeltas == I64Min..I64Max

\* Time + TimeDelta: checked with debug assertions, wrapping without
TimeAdd(t, rhs, debug_assertions) ==
    IF TimeIsFinite(t)
    THEN IF debug_assertions
         THEN IF t + rhs < 0 \/ t + rhs > U64Max
              THEN [panic |-> TRUE, time |-> t]
              ELSE [panic |-> FALSE, time |-> t + rhs]
         ELSE [panic |-> FALSE, time |-> (t + rhs) % 2^TimeBits]
    ELSE [panic |-> FALSE, time |-> t]

\* the delays a caller can pass to schedule and run_for
PositiveTimeDeltas ==
    LET
        \* PositiveTimeDelta::try_from(TimeDelta)
        PositiveTimeDeltaTryFrom(value) ==
            IF value < 0 THEN [ok |-> FALSE, err |-> "Negative"]
            ELSE IF value = 0 THEN [ok |-> FALSE, err |-> "Zero"]
            ELSE [ok |-> TRUE, delta |-> value]
    IN
    { PositiveTimeDeltaTryFrom(v).delta :
        v \in { w \in TimeDeltas : PositiveTimeDeltaTryFrom(w).ok } }

\* most events in the queue
MaxEvents == 2

\* most events triggered
MaxTriggered == 3

\* Simulation::ended
Ended(sim) == ~TimeIsFinite(sim.time)

\* the Simulation as a value
Sim == [time |-> time, state |-> state, events |-> events]

\* (mutant) schedule without the check that the time is finite
ScheduleUnguarded(sim, event, delay, debug_assertions) ==
    LET t == TimeAdd(sim.time, delay, debug_assertions)
    IN  IF t.panic
        THEN [sim |-> sim, result |-> "panic"]
        ELSE [sim |-> [sim EXCEPT !.events =
                         @ (+) SetToBag({[time |-> t.time, event |-> event]})],
              result |-> "Ok"]

\* Simulation::schedule
Schedule(sim, event, delay, debug_assertions) ==
    IF ~TimeIsFinite(sim.time)
    THEN [sim |-> sim, result |-> "Err(CannotScheduleAtInfinite)"]
    ELSE LET t == TimeAdd(sim.time, delay, debug_assertions)
         IN  IF t.panic
             THEN [sim |-> sim, result |-> "panic"]
             ELSE [sim |-> [sim EXCEPT !.events =
                              @ (+) SetToBag({[time |-> t.time, event |-> event]})],
                   result |-> "Ok"]

\* BinaryHeap::pop under QueuedEvent's reversed order: an event of the
\* smallest time (which one of several is the heap's business)
PopCandidates(evs) ==
    { q \in BagToSet(evs) : \A o \in BagToSet(evs) : q.time <= o.time }

\* the outcomes of Simulation::step
StepOutcomes(sim, debug_assertions) ==
    LET
        \* Simulation::step when pop returned q
        StepPopped(sim__, q, debug_assertions__) ==
            LET
                \* Event::trigger of the model's events
                Trigger(sim_, event, debug_assertions_) ==
                    LET logged == [sim_ EXCEPT !.state = Append(@, sim_.time)]
                    IN  CASE event.kind = "nop" -> [sim |-> logged, result |-> "Ok"]
                          [] event.kind = "fail" -> [sim |-> logged, result |-> "Err"]
                          [] event.kind = "again" ->
                               LET r == Schedule(logged, event, event.delay, debug_assertions_)
                               IN  [sim |-> r.sim,
                                    result |-> IF r.result = "Ok" THEN "Ok"
                                               ELSE IF r.result = "panic" THEN "panic" ELSE "Err"]
            IN
            Trigger([sim__ EXCEPT !.time = q.time,
                                !.events = @ (-) SetToBag({q})],
                    q.event, debug_assertions__)
    IN
    LET
        \* Simulation::step when the queue is empty
        StepEmpty(self) == [sim |-> [self EXCEPT !.time = TimeINFINITY], result |-> "Ok"]
    IN
    IF BagToSet(sim.events) = {}
    THEN {StepEmpty(sim)}
    ELSE { StepPopped(sim, q, debug_assertions) : q \in PopCandidates(sim.events) }

\* Simulation::new
InitSim ==
    LET
        \* Time::ZERO
        TimeZERO == 0
    IN
    \E b \in BOOLEAN :
        /\ cfg = [debug_assertions |-> b]
        /\ time = TimeZERO
        /\ state = <<>>
        /\ events = EmptyBag
        /\ op = "idle"
        /\ arg = "none"
        /\ out = "none"
        /\ field = "none"
        /\ rc = {}
        /\ advanced = "none"
        /\ end = "none"
        /\ iters = 0

\* the simulation after a call that ended in r
SimBecomes(r) ==
    /\ time' = r.sim.time
    /\ state' = r.sim.state
    /\ events' = r.sim.events
    /\ out' = r.result

CallSchedule ==
    LET
        \* the events of the model: trigger logs the time in the state, and then
        \* returns Ok, returns Err, or schedules the event again after a delay
        Events ==
            {[kind |-> "nop"], [kind |-> "fail"]}
                \cup { [kind |-> "again", delay |-> d] : d \in {1, I64Max} }
    IN
    /\ op = "idle"
    /\ BagCardinality(events) < MaxEvents
    /\ \E event \in Events, delay \in PositiveTimeDeltas :
        /\ op' = "schedule"
        /\ arg' = [event |-> event, delay |-> delay, before |-> Sim]
        /\ SimBecomes(Schedule(Sim, event, delay, cfg.debug_assertions))
    /\ UNCHANGED <<cfg, field, rc, advanced, end, iters>>

CallStep ==
    /\ op = "idle"
    /\ Len(state) < MaxTriggered
    /\ \E r \in StepOutcomes(Sim, cfg.debug_assertions) :
        /\ op' = "step"
        /\ arg' = "none"
        /\ SimBecomes(r)
    /\ UNCHANGED <<cfg, field, rc, advanced, end, iters>>

\* Simulation::events_clear
CallEventsClear ==
    /\ op = "idle"
    /\ op' = "events_clear"
    /\ arg' = "none"
    /\ events' = EmptyBag
    /\ out' = "Ok"
    /\ UNCHANGED <<time, state, cfg, field, rc, advanced, end, iters>>

\* Simulation::run_until(target) enters its loop; the caller made the
\* target from time() and a TimeDelta
CallRunUntil ==
    /\ op = "idle"
    /\ \E d \in TimeDeltas :
        LET target == TimeAdd(time, d, cfg.debug_assertions)
        IN  /\ ~target.panic
            /\ op' = "run_until"
            /\ arg' = [target |-> target.time, before |-> Sim]
            /\ out' = "none"
    /\ UNCHANGED <<simVars, cfg, field, rc, advanced, end, iters>>

\* Simulation::run_for(delta) computes the target and enters run_until
CallRunFor ==
    /\ op = "idle"
    /\ \E delta \in PositiveTimeDeltas :
        LET target == TimeAdd(time, delta, cfg.debug_assertions)
        IN  IF target.panic
            THEN /\ op' = "run_for"
                 /\ arg' = [delta |-> delta]
                 /\ out' = "panic"
            ELSE /\ op' = "run_until"
                 /\ arg' = [target |-> target.time, before |-> Sim]
                 /\ out' = "none"
    /\ UNCHANGED <<simVars, cfg, field, rc, advanced, end, iters>>

\* Simulation::run
CallRun ==
    /\ op = "idle"
    /\ op' = "run_until"
    /\ arg' = [target |-> TimeINFINITY, before |-> Sim]
    /\ out' = "none"
    /\ UNCHANGED <<simVars, cfg, field, rc, advanced, end, iters>>

\* one iteration of `while self.time < time { self.step()?; }`
RunUntilStep ==
    /\ op = "run_until"
    /\ out = "none"
    /\ time < arg.target
    /\ Len(state) < MaxTriggered
    /\ \E r \in StepOutcomes(Sim, cfg.debug_assertions) :
        /\ time' = r.sim.time
        /\ state' = r.sim.state
        /\ events' = r.sim.events
        /\ out' = IF r.result = "Ok" THEN "none" ELSE r.result
    /\ UNCHANGED <<op, arg, cfg, field, rc, advanced, end, iters>>

\* the loop of run_until ends
RunUntilDone ==
    /\ op = "run_until"
    /\ out = "none"
    /\ ~(time < arg.target)
    /\ out' = "Ok"
    /\ UNCHANGED <<simVars, op, arg, cfg, field, rc, advanced, end, iters>>

\* the caller takes the result; a panic ends the program
ReturnSim ==
    /\ op # "idle"
    /\ out \notin {"none", "panic"}
    /\ op' = "idle"
    /\ arg' = "none"
    /\ out' = "none"
    /\ UNCHANGED <<simVars, cfg, field, rc, advanced, end, iters>>

NextSim ==
    \/ CallSchedule
    \/ CallStep
    \/ CallEventsClear
    \/ CallRunUntil
    \/ CallRunFor
    \/ CallRun
    \/ RunUntilStep
    \/ RunUntilDone
    \/ ReturnSim

SpecSim == InitSim /\ [][NextSim]_vars

----------------------------------------------------------------------------
(* Claims about the simulation *)

\* C18: time() never decreases over any calls of schedule, step, run_until,
\* run_for and run, and the events are triggered in non-decreasing order of
\* their scheduled times
C18_MonotoneTime ==
    /\ [][time' >= time]_vars
    /\ [](\A i, j \in DOMAIN state : i < j => state[i] <= state[j])

\* C19: schedule on an ended simulation returns Err(CannotScheduleAtInfinite)
\* and changes nothing; on a simulation of finite time it returns Ok, adds
\* exactly one event, at time + delay, and leaves time and state as they were
C19_ScheduleAfterEnd ==
    op = "schedule" =>
        IF ~TimeIsFinite(arg.before.time)
        THEN /\ out = "Err(CannotScheduleAtInfinite)"
             /\ Sim = arg.before
        ELSE /\ out = "Ok"
             /\ time = arg.before.time
             /\ state = arg.before.state
             /\ events = arg.before.events
                           (+) SetToBag({[time |-> arg.before.time + arg.delay,
                                          event |-> arg.event]})

\* C28: when run_until(t) returns Ok it has triggered only events whose
\* scheduled time is <= t, and every event that was scheduled strictly after
\* t when it was called is still in the queue
C28_RunUntilStopsAtTarget ==
    (op = "run_until" /\ out = "Ok") =>
        /\ \A i \in (Len(arg.before.state) + 1)..Len(state) :
             state[i] <= arg.target
        /\ \A q \in BagToSet(arg.before.events) :
             q.time > arg.target =>
                CopiesIn(q, events) >= CopiesIn(q, arg.before.events)

\* C29: step on an empty queue sets time to INFINITY and returns Ok without
\* triggering anything; once the simulation has ended with an empty queue,
\* every call leaves it ended, at INFINITY, with an empty queue and nothing
\* more triggered; and ended() is false at the finite time of a trigger
C29_EndAbsorbing ==
    /\ [][(op = "idle" /\ op' = "step" /\ events = EmptyBag) =>
            /\ time' = TimeINFINITY
            /\ out' = "Ok"
            /\ state' = state
            /\ events' = EmptyBag]_vars
    /\ [][(Ended(Sim) /\ events = EmptyBag) =>
            /\ Ended([time |-> time', state |-> state', events |-> events'])
            /\ time' = TimeINFINITY
            /\ events' = EmptyBag
            /\ state' = state]_vars
    /\ []((Len(state) > 0 /\ time = state[Len(state)] /\ time < U64Max)
            => ~Ended(Sim))

\* a schedule refused on a simulation that triggered events and then ended
\* with an empty queue
C29_Witness ==
    /\ op = "schedule"
    /\ out = "Err(CannotScheduleAtInfinite)"
    /\ Len(state) > 0
    /\ Ended(Sim)
    /\ events = EmptyBag

----------------------------------------------------------------------------
(* The legacy simulation (src/src/simulation): Time is a wrapping i64 *)

\* EventQueue::peek_next_time: the least time in the queue
PeekNextTime(evs) ==
    CHOOSE t \in { q.time : q \in BagToSet(evs) } :
        \A q \in BagToSet(evs) : t <= q.time

\* a Simulation of the legacy module, with some queue of events
InitLegacy ==
    LET
        \* the queues a legacy simulation starts with: at most MaxEvents events at
        \* times from 0 on
        LegacyQueues ==
            LET
                \* the events of the legacy model: run logs the time in the state and
                \* returns Ok or Err
                LegacyEvents == {[kind |-> "nop"], [kind |-> "fail"]}
            IN
            { SetToBag(S) :
                S \in { T \in SUBSET { [time |-> t, event |-> e] :
                                         t \in 0..I64Max, e \in LegacyEvents } :
                          Cardinality(T) <= MaxEvents } }
    IN
    /\ time = 0
    /\ state = <<>>
    /\ events \in LegacyQueues
    /\ op = "idle"
    /\ arg = "none"
    /\ out = "none"
    /\ cfg = "none"
    /\ field = "none"
    /\ rc = {}
    /\ advanced = "none"
    /\ end = "none"
    /\ iters = 0

\* the body of Simulation::step: Err(NoMoreEvents) on an empty queue, else
\* the time becomes the next event's and the event runs
LegacyStepBody(result_ok) ==
    IF BagToSet(events) = {}
    THEN /\ out' = "Err(NoMoreEvents)"
         /\ UNCHANGED <<time, state, events>>
    ELSE \E q \in PopCandidates(events) :
            /\ time' = q.time
            /\ events' = events (-) SetToBag({q})
            /\ state' = Append(state, q.time)
            /\ out' = IF q.event.kind = "fail" THEN "Err(EventError)" ELSE result_ok

\* Simulation::step
LegacyStep ==
    /\ op = "idle"
    /\ op' = "step"
    /\ arg' = "none"
    /\ LegacyStepBody("Ok")
    /\ UNCHANGED <<cfg, field, rc, advanced, end, iters>>

\* Simulation::run_until(target) enters its loop
LegacyRunUntil ==
    /\ op = "idle"
    /\ \E target \in TimeDeltas :
        /\ op' = "run_until"
        /\ arg' = [target |-> target]
        /\ out' = "none"
    /\ UNCHANGED <<simVars, cfg, field, rc, advanced, end, iters>>

\* Simulation::run_for(delta) enters run_until(time + delta)
LegacyRunFor ==
    LET
        \* Time + Time on Wrapping<i64>
        LegacyTimeAdd(a, b) == WrapI64(a + b)
    IN
    /\ op = "idle"
    /\ \E delta \in TimeDeltas :
        /\ op' = "run_until"
        /\ arg' = [target |-> LegacyTimeAdd(time, delta)]
        /\ out' = "none"
    /\ UNCHANGED <<simVars, cfg, field, rc, advanced, end, iters>>

\* run_until: the queue is empty when the loop peeks
LegacyRunUntilEmpty ==
    /\ op = "run_until"
    /\ out = "none"
    /\ BagToSet(events) = {}
    /\ out' = "Err(NoMoreEvents)"
    /\ UNCHANGED <<simVars, op, arg, cfg, field, rc, advanced, end, iters>>

\* run_until: the next event is before the target, the loop steps
LegacyRunUntilStep ==
    /\ op = "run_until"
    /\ out = "none"
    /\ BagToSet(events) # {}
    /\ PeekNextTime(events) < arg.target
    /\ LegacyStepBody("none")
    /\ UNCHANGED <<op, arg, cfg, field, rc, advanced, end, iters>>

\* run_until: the next event is not before the target; the loop ends and
\* the time is set to the target
LegacyRunUntilDone ==
    /\ op = "run_until"
    /\ out = "none"
    /\ BagToSet(events) # {}
    /\ ~(PeekNextTime(events) < arg.target)
    /\ time' = arg.target
    /\ out' = "Ok"
    /\ UNCHANGED <<state, events, op, arg, cfg, field, rc, advanced, end, iters>>

\* Simulation::run_while(condition) enters its loop
LegacyRunWhile ==
    LET
        \* the conditions passed to run_while: the time is before a bound
        LegacyConditions == { [before |-> t] : t \in {1, I64Max} }
    IN
    /\ op = "idle"
    /\ \E condition \in LegacyConditions :
        /\ op' = "run_while"
        /\ arg' = [condition |-> condition]
        /\ out' = "none"
    /\ UNCHANGED <<simVars, cfg, field, rc, advanced, end, iters>>

\* run_while: the condition holds, the loop steps
LegacyRunWhileStep ==
    /\ op = "run_while"
    /\ out = "none"
    /\ time < arg.condition.before
    /\ LegacyStepBody("none")
    /\ UNCHANGED <<op, arg, cfg, field, rc, advanced, end, iters>>

\* run_while: the condition fails, the loop ends
LegacyRunWhileDone ==
    /\ op = "run_while"
    /\ out = "none"
    /\ ~(time < arg.condition.before)
    /\ out' = "Ok"
    /\ UNCHANGED <<simVars, op, arg, cfg, field, rc, advanced, end, iters>>

\* the caller takes the result
LegacyReturn ==
    /\ op # "idle"
    /\ out # "none"
    /\ op' = "idle"
    /\ arg' = "none"
    /\ out' = "none"
    /\ UNCHANGED <<simVars, cfg, field, rc, advanced, end, iters>>

NextLegacy ==
    \/ LegacyStep
    \/ LegacyRunUntil
    \/ LegacyRunFor
    \/ LegacyRunUntilEmpty
    \/ LegacyRunUntilStep
    \/ LegacyRunUntilDone
    \/ LegacyRunWhile
    \/ LegacyRunWhileStep
    \/ LegacyRunWhileDone
    \/ LegacyReturn

SpecLegacy == InitLegacy /\ [][NextLegacy]_vars

\* C22: over any calls of step, run_until, run_for and run_while of the
\* legacy Simulation, time() never decreases
C22_LegacyMonotoneTime == [][time' >= time]_vars

----------------------------------------------------------------------------
(* Duration and TimeDelta (crate sim_time), on integers of TimeBits bits *)

\* the result of an i64 +, * or abs: with overflow checks an overflow
\* panics, without them it wraps
CheckedI64(x, overflow_checks) ==
    IF x >= I64Min /\ x <= I64Max THEN [result |-> "Ok", value |-> x]
    ELSE IF overflow_checks THEN [result |-> "panic", value |-> 0]
    ELSE [result |-> "Ok", value |-> WrapI64(x)]

\* `rhs as i64` of a u64
U64AsI64(rhs) == IF rhs > I64Max THEN rhs - 2^TimeBits ELSE rhs

\* i64 / i64: truncates; panics on a zero divisor and on MIN / -1
I64Div(a, b) ==
    IF b = 0 \/ (a = I64Min /\ b = -1) THEN [result |-> "panic", value |-> 0]
    ELSE [result |-> "Ok", value |-> ISgn(a) * ISgn(b) * (IAbs(a) \div IAbs(b))]

\* i64 % i64: the sign of the dividend; panics as the division does
I64Rem(a, b) ==
    IF b = 0 \/ (a = I64Min /\ b = -1) THEN [result |-> "panic", value |-> 0]
    ELSE [result |-> "Ok",
          value |-> a - b * (ISgn(a) * ISgn(b) * (IAbs(a) \div IAbs(b)))]

\* Duration::try_from(TimeDelta)
DurationTryFrom(value) ==
    IF value >= 0 THEN [result |-> "Ok", value |-> value]
    ELSE [result |-> "Err(NegativeTimeDelta)", value |-> value]

\* the Durations the constants and try_from give
Durations == 0..I64Max

\* the u64 factors and divisors
U64s == 0..U64Max

InitDuration ==
    \E b \in BOOLEAN :
        /\ cfg = [overflow_checks |-> b]
        /\ op = "idle"
        /\ arg = "none"
        /\ out = "none"
        /\ field = "none"
        /\ rc = {}
        /\ advanced = "none"
        /\ end = "none"
        /\ iters = 0
        /\ NoSimulation

CallTryFrom ==
    /\ op = "idle"
    /\ \E value \in TimeDeltas :
        /\ op' = "try_from"
        /\ arg' = [value |-> value]
        /\ out' = DurationTryFrom(value)
    /\ UNCHANGED <<simVars, cfg, field, rc, advanced, end, iters>>

CallAdd ==
    LET
        \* Duration + Duration
        DurationAdd(self, rhs, overflow_checks) == CheckedI64(self + rhs, overflow_checks)
    IN
    /\ op = "idle"
    /\ \E self \in Durations, rhs \in Durations :
        /\ op' = "add"
        /\ arg' = [self |-> self, rhs |-> rhs]
        /\ out' = DurationAdd(self, rhs, cfg.overflow_checks)
    /\ UNCHANGED <<simVars, cfg, field, rc, advanced, end, iters>>

CallMulU64 ==
    LET
        \* Duration * u64
        DurationMulU64(self, rhs, overflow_checks) ==
            CheckedI64(self * U64AsI64(rhs), overflow_checks)
    IN
    /\ op = "idle"
    /\ \E self \in Durations, rhs \in U64s :
        /\ op' = "mul_u64"
        /\ arg' = [self |-> self, rhs |-> rhs]
        /\ out' = DurationMulU64(self, rhs, cfg.overflow_checks)
    /\ UNCHANGED <<simVars, cfg, field, rc, advanced, end, iters>>

CallMulF64 ==
    LET
        \* Duration * f64
        DurationMulF64(self, rhs) ==
            LET
                \* `x as i64` of an f64: truncates, saturates, NaN gives 0
                F64AsI64(x) ==
                    IF FIsNaN(x) THEN 0
                    ELSE IF x.d = 0 THEN (IF x.n > 0 THEN I64Max ELSE I64Min)
                    ELSE LET t == ISgn(x.n) * (IAbs(x.n) \div x.d)
                         IN  IF t > I64Max THEN I64Max ELSE IF t < I64Min THEN I64Min ELSE t
            IN
            IF ~FLe(FZero, rhs) THEN [result |-> "panic", value |-> 0]
            ELSE [result |-> "Ok", value |-> F64AsI64(FMul(FInt(self), rhs))]
    IN
    LET
        \* the f64 factors
        F64s == {FZero, F(1, 2), FOne, FInt(2), FInt(-1), FInf, FNaN}
    IN
    /\ op = "idle"
    /\ \E self \in Durations, rhs \in F64s :
        /\ op' = "mul_f64"
        /\ arg' = [self |-> self, rhs |-> rhs]
        /\ out' = DurationMulF64(self, rhs)
    /\ UNCHANGED <<simVars, cfg, field, rc, advanced, end, iters>>

CallDivU64 ==
    LET
        \* Duration / u64
        DurationDivU64(self, rhs) == I64Div(self, U64AsI64(rhs))
    IN
    /\ op = "idle"
    /\ \E self \in Durations, rhs \in U64s :
        /\ op' = "div_u64"
        /\ arg' = [self |-> self, rhs |-> rhs]
        /\ out' = DurationDivU64(self, rhs)
    /\ UNCHANGED <<simVars, cfg, field, rc, advanced, end, iters>>

CallRem ==
    LET
        \* Duration % Duration
        DurationRem(self, rhs) ==
            LET r == I64Rem(self, rhs)
            IN  IF r.result = "panic" THEN r
                ELSE IF DurationTryFrom(r.value).result = "Ok" THEN r
                ELSE [result |-> "panic", value |-> 0]
    IN
    /\ op = "idle"
    /\ \E self \in Durations, rhs \in Durations :
        /\ op' = "rem"
        /\ arg' = [self |-> self, rhs |-> rhs]
        /\ out' = DurationRem(self, rhs)
    /\ UNCHANGED <<simVars, cfg, field, rc, advanced, end, iters>>

CallAbs ==
    LET
        \* TimeDelta::abs
        TimeDeltaAbs(self, overflow_checks) == CheckedI64(IAbs(self), overflow_checks)
    IN
    /\ op = "idle"
    /\ \E self \in TimeDeltas :
        /\ op' = "abs"
        /\ arg' = [self |-> self]
        /\ out' = TimeDeltaAbs(self, cfg.overflow_checks)
    /\ UNCHANGED <<simVars, cfg, field, rc, advanced, end, iters>>

\* the caller takes the result; a panic ends the program
ReturnDuration ==
    /\ op # "idle"
    /\ out.result # "panic"
    /\ op' = "idle"
    /\ arg' = "none"
    /\ out' = "none"
    /\ UNCHANGED <<simVars, cfg, field, rc, advanced, end, iters>>

NextDuration ==
    \/ CallTryFrom
    \/ CallAdd
    \/ CallMulU64
    \/ CallMulF64
    \/ CallDivU64
    \/ CallRem
    \/ CallAbs
    \/ ReturnDuration

SpecDuration == InitDuration /\ [][NextDuration]_vars

----------------------------------------------------------------------------
(* Claims about Duration *)

\* C20: every Duration that try_from, +, * u64, * f64, / u64, % and
\* TimeDelta::abs return is >= Duration::ZERO, and try_from returns
\* Err(NegativeTimeDelta) exactly for the negative deltas
C20_DurationNeverNegative ==
    /\ (op # "idle" /\ out.result = "Ok") => out.value >= 0
    /\ op = "try_from" => (out.result = "Err(NegativeTimeDelta)" <=> arg.value < 0)

----------------------------------------------------------------------------
(* Humanized<T> (crate sim_time, mod humanized): display and parse.  A     *)
(* string is the sequence of its characters.  The values of this section   *)
(* lie far inside the i64 range, where no step of display or parse         *)
(* overflows; a year of the model is DaysPerYear days (365 in the source). *)

DaysPerYear == 3

\* TimeDelta::SECOND
TimeDeltaSECOND == 1024

\* TimeDelta::MINUTE
TimeDeltaMINUTE == 1024 * 60

\* TimeDelta::HOUR
TimeDeltaHOUR == 1024 * 60 * 60

\* TimeDelta::DAY
TimeDeltaDAY == 1024 * 60 * 60 * 24

\* TimeDelta::YEAR
TimeDeltaYEAR == 1024 * 60 * 60 * 24 * DaysPerYear

\* TimeDelta::div_f
DivF(self, rhs) == FDiv(FInt(self), FInt(rhs))

\* TimeDelta::div_i with a flooring division
DivIFloor(self, rhs) == self \div rhs

\* TimeDelta::div_i
DivI(self, rhs) == I64Div(self, rhs).value

\* the decimal digits
DigitChars == <<"0", "1", "2", "3", "4", "5", "6", "7", "8", "9">>

\* \d
Digits == {DigitChars[d] : d \in 1..10}

DigitValue(c) == (CHOOSE d \in 1..10 : DigitChars[d] = c) - 1

RECURSIVE FmtU64(_)
\* `{n}` of a non-negative integer
FmtU64(n) ==
    IF n < 10 THEN <<DigitChars[n + 1]>>
    ELSE FmtU64(n \div 10) \o <<DigitChars[(n % 10) + 1]>>

\* Display for Humanized<TimeDelta>
FmtTimeDelta(self) ==
    LET
        RECURSIVE FmtFrom(_, _, _)
        \* Display for Humanized<TimeDelta>, from the i-th unit on, with the
        \* locals t and spacing
        FmtFrom(t, i, spacing) ==
            LET
                \* the units of the loop of Display, largest first
                DisplayUnits ==
                    << [unit |-> TimeDeltaYEAR, unit_name |-> "y"],
                       [unit |-> TimeDeltaDAY, unit_name |-> "d"],
                       [unit |-> TimeDeltaHOUR, unit_name |-> "h"],
                       [unit |-> TimeDeltaMINUTE, unit_name |-> "m"] >>
            IN
            LET
                \* `{secs}` of an f64: the shortest decimal that parses back to it, never
                \* with an exponent.  For a multiple of 1/1024 below 60 that is its exact
                \* expansion: an integer prints without a point
                FmtF64(x) ==
                    LET
                        RECURSIVE FmtFraction(_, _)
                        \* the digits of r / d after the point, 0 <= r < d, by long division
                        FmtFraction(r, d) ==
                            IF r = 0 THEN <<>>
                            ELSE <<DigitChars[((r * 10) \div d) + 1]>> \o FmtFraction((r * 10) % d, d)
                    IN
                    LET a == IAbs(x.n)
                    IN  (IF x.n < 0 THEN <<"-">> ELSE <<>>)
                        \o FmtU64(a \div x.d)
                        \o (IF a % x.d = 0 THEN <<>> ELSE <<".">> \o FmtFraction(a % x.d, x.d))
            IN
            LET
                \* `{n}` of an i64
                FmtI64(n) == IF n < 0 THEN <<"-">> \o FmtU64(-n) ELSE FmtU64(n)
            IN
            LET
                \* TimeDelta % TimeDelta
                TimeDeltaRem(self_, rhs) == I64Rem(self_, rhs).value
            IN
            LET sep == IF spacing THEN <<" ">> ELSE <<>>
            IN  IF i > Len(DisplayUnits)
                THEN IF t # 0
                     THEN sep \o FmtF64(DivF(t, TimeDeltaSECOND)) \o <<"s">>
                     ELSE <<>>
                ELSE LET n == DivI(t, DisplayUnits[i].unit)
                         r == TimeDeltaRem(t, DisplayUnits[i].unit)
                     IN  IF n # 0
                         THEN sep \o FmtI64(n) \o <<DisplayUnits[i].unit_name>>
                              \o FmtFrom(r, i + 1, TRUE)
                         ELSE FmtFrom(r, i + 1, spacing)
    IN
                      IF self = 0 THEN <<"0">> ELSE FmtFrom(self, 1, FALSE)

\* the i-th character of s, or "" outside it
At(s, i) == IF i >= 1 /\ i <= Len(s) THEN s[i] ELSE ""

RECURSIVE Span(_, _, _)
\* the index after the longest run of characters of `set` in s from i
Span(s, i, set) ==
    IF i <= Len(s) /\ s[i] \in set THEN Span(s, i + 1, set) ELSE i

\* `-?(?:D+(?:\.D*)?|\.D+)` at the start of s, D the digits of `digits`:
\* the index after the match, or 0
MatchMantissa(s, digits) ==
    LET i == IF At(s, 1) = "-" THEN 2 ELSE 1
        j == Span(s, i, digits)
    IN  IF j > i
        THEN IF At(s, j) = "." THEN Span(s, j + 1, digits) ELSE j
        ELSE IF At(s, i) = "." /\ Span(s, i + 1, digits) > i + 1
             THEN Span(s, i + 1, digits)
             ELSE 0

\* `(?:e\d+)?` at index j of s, e one of `es`: the index after the match
MatchExponent(s, j, es) ==
    IF At(s, j) \in es /\ Span(s, j + 1, Digits) > j + 1
    THEN Span(s, j + 1, Digits)
    ELSE j

RECURSIVE NatOf(_)
\* the number a sequence of digits writes
NatOf(ds) ==
    IF ds = <<>> THEN 0
    ELSE 10 * NatOf(SubSeq(ds, 1, Len(ds) - 1)) + DigitValue(ds[Len(ds)])

\* FromStr for Humanized<TimeDelta>
FromStrTimeDelta(s) ==
    LET
        RECURSIVE ParseTerms(_, _)
        \* the loop of from_str, lines 534-561, with the locals s and total
        ParseTerms(s_, total) ==
            LET
                \* the regex of one term, line 536: the captures num, unit and rest
                MatchTerm(term) ==
                    LET
                        \* [ydhms]
                        UnitNames == {"y", "d", "h", "m", "s"}
                    IN
                    LET j == MatchMantissa(term, Digits)
                    IN  IF j = 0 THEN [matched |-> FALSE]
                        ELSE LET k == MatchExponent(term, j, {"e"})
                                 u == Span(term, k, {" "})
                             IN  IF At(term, u) \notin UnitNames THEN [matched |-> FALSE]
                                 ELSE [matched |-> TRUE,
                                       num |-> SubSeq(term, 1, k - 1),
                                       unit |-> term[u],
                                       rest |-> SubSeq(term, Span(term, u + 1, {" "}), Len(term))]
            IN
            LET
                \* the term added to total, lines 551-556
                TermValue(num, unit) ==
                    LET
                        \* num.parse::<f64>() of a num the regex matched: the value it writes,
                        \* which is an f64 for every num a display gives
                        ParseF64(number) ==
                            LET
                                RECURSIVE Pow10(_)
                                Pow10(e) == IF e = 0 THEN 1 ELSE 10 * Pow10(e - 1)
                            IN
                            LET
                                RECURSIVE FractionOf(_)
                                \* the number a sequence of digits writes after the point
                                FractionOf(ds) ==
                                    IF ds = <<>> THEN FZero
                                    ELSE FDiv(FAdd(FInt(DigitValue(Head(ds))), FractionOf(Tail(ds))), FInt(10))
                            IN
                            LET i == IF At(number, 1) = "-" THEN 2 ELSE 1
                                j == Span(number, i, Digits)
                                k == IF At(number, j) = "." THEN Span(number, j + 1, Digits) ELSE j
                                e == IF At(number, k) = "e" THEN NatOf(SubSeq(number, k + 1, Len(number))) ELSE 0
                                m == FAdd(FInt(NatOf(SubSeq(number, i, j - 1))),
                                          FractionOf(SubSeq(number, j + 1, k - 1)))
                            IN  FMul(FInt((IF i = 2 THEN -1 ELSE 1) * Pow10(e)), m)
                    IN
                    LET
                        \* num.parse::<i64>(): an optional sign and digits only
                        ParseI64(number) ==
                            LET i == IF At(number, 1) = "-" THEN 2 ELSE 1
                            IN  IF i <= Len(number) /\ Span(number, i, Digits) = Len(number) + 1
                                THEN [ok |-> TRUE,
                                      value |-> (IF i = 2 THEN -1 ELSE 1) * NatOf(SubSeq(number, i, Len(number)))]
                                ELSE [ok |-> FALSE]
                    IN
                    LET
                        \* TimeDelta * f64: `(self.0 as f64 * rhs) as i64`
                        TimeDeltaMulF64(self, rhs) ==
                            LET x == FMul(FInt(self), rhs)
                            IN  IF x.d = 0 THEN 0 ELSE ISgn(x.n) * (IAbs(x.n) \div x.d)
                    IN
                    IF ParseI64(num).ok THEN ParseI64(num).value * unit
                    ELSE TimeDeltaMulF64(unit, ParseF64(num))
            IN
            LET
                \* the match of the unit name, lines 542-549
                UnitOf(unit) ==
                    CASE unit = "y" -> TimeDeltaYEAR
                      [] unit = "d" -> TimeDeltaDAY
                      [] unit = "h" -> TimeDeltaHOUR
                      [] unit = "m" -> TimeDeltaMINUTE
                      [] unit = "s" -> TimeDeltaSECOND
            IN
            IF s_ = <<>> THEN [result |-> "Ok", value |-> total]
            ELSE LET m == MatchTerm(s_)
                 IN  IF ~m.matched THEN [result |-> "Err(UnrecognizedTerm)", value |-> 0]
                     ELSE ParseTerms(m.rest, total + TermValue(m.num, UnitOf(m.unit)))
    IN
    LET
        \* the regex of a zero value, line 529
        IsZeroLiteral(literal) ==
            LET j == MatchMantissa(literal, {"0"})
            IN  j # 0 /\ MatchExponent(literal, j, {"e", "E"}) = Len(literal) + 1
    IN
    LET
        \* str::trim
        Trim(text) ==
            LET
                RECURSIVE SpanBack(_, _, _)
                \* the index before the longest run of characters of `set` in s_ up to i
                SpanBack(str, i, set) ==
                    IF i >= 1 /\ str[i] \in set THEN SpanBack(str, i - 1, set) ELSE i
            IN
            LET a == Span(text, 1, {" "})
            IN  IF a > Len(text) THEN <<>> ELSE SubSeq(text, a, SpanBack(text, Len(text), {" "}))
    IN
    IF IsZeroLiteral(Trim(s)) THEN [result |-> "Ok", value |-> 0]
    ELSE ParseTerms(Trim(s), 0)

InitHumanized ==
    LET
        \* the values displayed, with their types; a Duration is not negative
        HumanValues ==
            LET
                \* the TimeDelta values displayed: up to two of each unit, of either sign
                HumanDeltas ==
                    LET
                        \* the ticks below a minute the values have
                        SubMinuteTicks == {0, 1, 512, 1023, 1024, 1536, 10 * 1024, 61439}
                    IN
                    { sg * (y * TimeDeltaYEAR + d * TimeDeltaDAY + h * TimeDeltaHOUR
                            + m * TimeDeltaMINUTE + k) :
                        sg \in {-1, 1}, y \in {0, 2}, d \in {0, 1}, h \in {0, 23},
                        m \in {0, 59}, k \in SubMinuteTicks }
            IN
            { [type |-> ty, value |-> v] : ty \in {"TimeDelta", "Time"}, v \in HumanDeltas }
            \cup { [type |-> "Duration", value |-> IAbs(v)] : v \in HumanDeltas }
    IN
    /\ cfg = "none"
    /\ op = "idle"
    /\ arg \in HumanValues
    /\ out = "none"
    /\ field = "none"
    /\ rc = {}
    /\ advanced = "none"
    /\ end = "none"
    /\ iters = 0
    /\ NoSimulation

\* format!("{}", Humanized(arb))
CallDisplay ==
    LET
        \* Display for Humanized<Time>: the delta from Time::ZERO
        FmtTime(self) == FmtTimeDelta(self - 0)
    IN
    LET
        \* Display for Humanized<Duration>
        FmtDuration(self) == FmtTimeDelta(self)
    IN
    /\ op = "idle"
    /\ op' = "display"
    /\ out' = CASE arg.type = "TimeDelta" -> FmtTimeDelta(arg.value)
                [] arg.type = "Time" -> FmtTime(arg.value)
                [] arg.type = "Duration" -> FmtDuration(arg.value)
    /\ UNCHANGED <<simVars, arg, cfg, field, rc, advanced, end, iters>>

\* displayed.parse::<Humanized<T>>()
CallParse ==
    LET
        \* FromStr for Humanized<Time>
        FromStrTime(s) ==
            LET delta == FromStrTimeDelta(s)
            IN  IF delta.result # "Ok" THEN delta
                ELSE [result |-> "Ok", value |-> 0 + delta.value]
    IN
    LET
        \* FromStr for Humanized<Duration>
        FromStrDuration(s) ==
            LET delta == FromStrTimeDelta(s)
            IN  IF delta.result # "Ok" THEN delta ELSE DurationTryFrom(delta.value)
    IN
    /\ op = "display"
    /\ op' = "parse"
    /\ arg' = [type |-> arg.type, value |-> arg.value, displayed |-> out]
    /\ out' = CASE arg.type = "TimeDelta" -> FromStrTimeDelta(out)
                [] arg.type = "Time" -> FromStrTime(out)
                [] arg.type = "Duration" -> FromStrDuration(out)
    /\ UNCHANGED <<simVars, cfg, field, rc, advanced, end, iters>>

NextHumanized ==
    \/ CallDisplay
    \/ CallParse

SpecHumanized == InitHumanized /\ [][NextHumanized]_vars

----------------------------------------------------------------------------
(* Claims about Humanized *)

\* C21: parsing the displayed string of a TimeDelta, a Time or a Duration
\* gives back the value displayed, whatever its sign
C21_ParseDisplayed ==
    op = "parse" => out = [result |-> "Ok", value |-> arg.value]

\* a negative value of several units and a fraction of a second was
\* displayed and parsed
C21_Witness ==
    /\ op = "parse"
    /\ arg.value < 0
    /\ \E i \in 1..Len(arg.displayed) : arg.displayed[i] = " "
    /\ \E i \in 1..Len(arg.displayed) : arg.displayed[i] = "."
    /\ arg.displayed[Len(arg.displayed)] = "s"

----------------------------------------------------------------------------
(* Illumination (crate illumination).  A Grid<f64> is                      *)
(* [rows, cols, data], data a function of <<row, col>>.                    *)

\* the local energy_flux of illuminate
EnergyFlux(self, t) ==
    LET
        \* f64::sin and f64::cos of a whole number of radians, in hundredths
        SinCosTable ==
            [x \in 0..6 |->
                CASE x = 0 -> <<0, 100>>
                  [] x = 1 -> <<84, 54>>
                  [] x = 2 -> <<91, -42>>
                  [] x = 3 -> <<14, -99>>
                  [] x = 4 -> <<-76, -65>>
                  [] x = 5 -> <<-96, 28>>
                  [] x = 6 -> <<-28, 96>>]
    IN
    LET
        \* f64::cos
        Cos(x) == F(SinCosTable[IAbs(x.n)][2], 100)
    IN
    LET
        \* f64::sin
        Sin(x) == F(ISgn(x.n) * SinCosTable[IAbs(x.n)][1], 100)
    IN
    LET sun_theta == DivF(t - 0, self.day_lenght)
        sun_pos == VAdd3(VScale3(self.sunrise, Sin(sun_theta)),
                         VScale3(self.solar_noon, Cos(sun_theta)))
    IN  VScale3(sun_pos, self.solar_constant)

\* the sun from straight above
Vertical(energy_flux) ==
    IF FLt(FZero, energy_flux[3]) THEN energy_flux[3] ELSE FZero

\* the east and west loops without the wrapped column
EastWestNoWrap(energy_flux, map, row, col) ==
    IF FLt(FZero, energy_flux[1])
    THEN IF col < map.cols - 1
         THEN FMul(energy_flux[1],
                   FMax(FSub(map.data[<<row, col>>], map.data[<<row, col + 1>>]), FZero))
         ELSE FZero
    ELSE IF col = 0
         THEN FZero
         ELSE FMul(FNeg(energy_flux[1]),
                   FMax(FSub(map.data[<<row, col>>], map.data[<<row, col - 1>>]), FZero))

\* what the east or the west loop adds to the cell (row, col)
EastWest(energy_flux, map, row, col) ==
    IF FLt(FZero, energy_flux[1])
    THEN IF col < map.cols - 1
         THEN FMul(energy_flux[1],
                   FMax(FSub(map.data[<<row, col>>], map.data[<<row, col + 1>>]), FZero))
         ELSE FMul(energy_flux[1],
                   FMax(FSub(map.data[<<row, col>>], map.data[<<row, 0>>]), FZero))
    ELSE LET flux == FNeg(energy_flux[1])
         IN  IF col = 0
             THEN FMul(flux,
                       FMax(FSub(map.data[<<row, col>>],
                                 map.data[<<row, map.cols - 1>>]), FZero))
             ELSE FMul(flux,
                       FMax(FSub(map.data[<<row, col>>], map.data[<<row, col - 1>>]), FZero))

\* Illumination::illuminate
Illuminate(self, map, t) ==
    LET
        \* what the north or the south loop adds to the cell (row, col)
        NorthSouth(energy_flux, grid, row, col) ==
            IF FLt(FZero, energy_flux[2])
            THEN IF row = 0
                 THEN FMul(energy_flux[2],
                           FMax(FSub(grid.data[<<row, col>>],
                                     grid.data[<<grid.rows - 1, col>>]), FZero))
                 ELSE FMul(energy_flux[2],
                           FMax(FSub(grid.data[<<row, col>>], grid.data[<<row - 1, col>>]), FZero))
            ELSE LET flux == FNeg(energy_flux[2])
                 IN  IF row < grid.rows - 1
                     THEN FMul(flux,
                               FMax(FSub(grid.data[<<row, col>>], grid.data[<<row + 1, col>>]), FZero))
                     ELSE FMul(flux,
                               FMax(FSub(grid.data[<<row, col>>], grid.data[<<0, col>>]), FZero))
    IN
    LET energy_flux == EnergyFlux(self, t)
    IN  [rows |-> map.rows,
         cols |-> map.cols,
         data |-> [cell \in (0..(map.rows - 1)) \X (0..(map.cols - 1)) |->
                     FAdd(FAdd(Vertical(energy_flux),
                               EastWest(energy_flux, map, cell[1], cell[2])),
                          NorthSouth(energy_flux, map, cell[1], cell[2]))]]

MaxCells == 6

InitIllumination ==
    LET
        \* the SunSetups
        SunSetups ==
            { [day_lenght |-> TimeDeltaDAY, latitude |-> latitude, solar_constant |-> FInt(k)] :
                latitude \in {0, 45, -45}, k \in {-1, 2} }
    IN
    LET
        \* Illumination::new
        IlluminationNew(setup) ==
            LET
                \* (latitude * (PI / 180.)).cos(), latitude in degrees
                CosOfDegrees(latitude) ==
                    CASE latitude = 0 -> FOne
                      [] latitude = 45 -> F(71, 100)
                      [] latitude = -45 -> F(71, 100)
            IN
            LET
                \* (latitude * (PI / 180.)).sin(), latitude in degrees
                SinOfDegrees(latitude) ==
                    CASE latitude = 0 -> FZero
                      [] latitude = 45 -> F(71, 100)
                      [] latitude = -45 -> F(-71, 100)
            IN
            [day_lenght |-> setup.day_lenght,
             solar_noon |-> <<FZero, FNeg(SinOfDegrees(setup.latitude)),
                              CosOfDegrees(setup.latitude)>>,
             sunrise |-> <<FOne, FZero, FZero>>,
             solar_constant |-> setup.solar_constant]
    IN
    \E setup \in SunSetups :
        /\ cfg = IlluminationNew(setup)
        /\ op = "idle"
        /\ arg = "none"
        /\ out = "none"
        /\ field = "none"
        /\ rc = {}
        /\ advanced = "none"
        /\ end = "none"
        /\ iters = 0
        /\ NoSimulation

\* illumination.illuminate(map, time)
CallIlluminate ==
    LET
        \* the times illuminated: whole days before and after Time::ZERO
        IlluminateTimes == { k * TimeDeltaDAY : k \in {-1, 0, 1, 2, 4} }
    IN
    LET
        \* the maps illuminated: the grids of at most MaxCells cells
        Grids ==
            LET
                \* the heights of the cells of a map
                Heights == {FZero, FOne}
            IN
            UNION { UNION { { [rows |-> rows, cols |-> cols, data |-> data] :
                                data \in [(0..(rows - 1)) \X (0..(cols - 1)) -> Heights] } :
                            cols \in 1..(MaxCells \div rows) } :
                    rows \in 1..MaxCells }
    IN
    /\ op = "idle"
    /\ \E map \in Grids, t \in IlluminateTimes :
        /\ op' = "illuminate"
        /\ arg' = [map |-> map, time |-> t]
        /\ out' = Illuminate(cfg, map, t)
    /\ UNCHANGED <<simVars, cfg, field, rc, advanced, end, iters>>

\* the caller takes the grid
ReturnIlluminate ==
    /\ op = "illuminate"
    /\ op' = "idle"
    /\ arg' = "none"
    /\ out' = "none"
    /\ UNCHANGED <<simVars, cfg, field, rc, advanced, end, iters>>

NextIllumination ==
    \/ CallIlluminate
    \/ ReturnIlluminate

SpecIllumination == InitIllumination /\ [][NextIllumination]_vars

----------------------------------------------------------------------------
(* Claims about Illumination *)

\* C30: the grid illuminate returns has the rows and cols of the map; each
\* cell is the vertical term, plus the east or west term against the next or
\* the previous column modulo cols, plus the north or south term against the
\* previous or the next row modulo rows; illuminating a cyclically shifted
\* map gives the result shifted alike; and no cell is negative when
\* solar_constant >= 0
C30_IlluminateOnTorus ==
    op = "illuminate" =>
        LET map == arg.map
            ef == EnergyFlux(cfg, arg.time)
            Drop(row, col, row2, col2) ==
                FMax(FSub(map.data[<<row, col>>],
                          map.data[<<row2 % map.rows, col2 % map.cols>>]), FZero)
            Shift(g, dr, dc) ==
                [rows |-> g.rows,
                 cols |-> g.cols,
                 data |-> [cell \in DOMAIN g.data |->
                             g.data[<<(cell[1] + dr) % g.rows, (cell[2] + dc) % g.cols>>]]]
        IN  /\ out.rows = map.rows
            /\ out.cols = map.cols
            /\ DOMAIN out.data = DOMAIN map.data
            /\ \A cell \in DOMAIN map.data :
                out.data[cell] =
                    FAdd(FAdd(IF FLt(FZero, ef[3]) THEN ef[3] ELSE FZero,
                              IF FLt(FZero, ef[1])
                              THEN FMul(ef[1], Drop(cell[1], cell[2], cell[1], cell[2] + 1))
                              ELSE FMul(FNeg(ef[1]),
                                        Drop(cell[1], cell[2], cell[1], cell[2] - 1))),
                         IF FLt(FZero, ef[2])
                         THEN FMul(ef[2], Drop(cell[1], cell[2], cell[1] - 1, cell[2]))
                         ELSE FMul(FNeg(ef[2]),
                                   Drop(cell[1], cell[2], cell[1] + 1, cell[2])))
            /\ \A dr \in 0..(map.rows - 1), dc \in 0..(map.cols - 1) :
                Illuminate(cfg, Shift(map, dr, dc), arg.time) = Shift(out, dr, dc)
            /\ FLe(FZero, cfg.solar_constant) =>
                \A cell \in DOMAIN out.data : FLe(FZero, out.data[cell])

\* a map of several rows and columns was illuminated from the east and the
\* north, and the cell of the first row and last column, higher than the
\* cells across both wrapped borders, got both terms
C30_Witness ==
    /\ op = "illuminate"
    /\ arg.map.rows > 1
    /\ arg.map.cols > 1
    /\ FLt(FZero, cfg.solar_constant)
    /\ FLt(FZero, EnergyFlux(cfg, arg.time)[1])
    /\ FLt(FZero, EnergyFlux(cfg, arg.time)[2])
    /\ FLt(arg.map.data[<<0, 0>>], arg.map.data[<<0, arg.map.cols - 1>>])
    /\ FLt(arg.map.data[<<arg.map.rows - 1, arg.map.cols - 1>>],
           arg.map.data[<<0, arg.map.cols - 1>>])
    /\ FLt(Vertical(EnergyFlux(cfg, arg.time)), out.data[<<0, arg.map.cols - 1>>])

====
